---- MODULE Spec2Model ----
(***************************************************************************)
(* Pending/approved lifecycle of the Mozhii RAG data platform: the raw,    *)
(* cleaned and chunked stage stores kept as files under data/pending and   *)
(* data/approved, and the Flask handlers that submit, update, approve,     *)
(* reject and delete them.                                                 *)
(*                                                                         *)
(* A directory is a function from the names of the files in it to their    *)
(* contents; the .txt and the .meta.json files of a stage directory are    *)
(* kept in two functions.  A handler is one action where requests run one  *)
(* after another, and one action per filesystem step (with the position of *)
(* the request kept per worker thread) where requests run concurrently.    *)
(***************************************************************************)
EXTENDS Integers, FiniteSets, Sequences, TLC

VARIABLES
    pendTxt,      \* [stage -> directory of <name>.txt under data/pending/<stage>]
    pendMeta,     \* [stage -> directory of <name>.meta.json under data/pending/<stage>]
    apprTxt,      \* the same under data/approved/<stage>
    apprMeta,
    pendChunks,   \* data/pending/chunked: [folder -> [chunk file index -> chunk]]
    apprChunks,   \* data/approved/chunked
    nextId,       \* the next uuid4 value (a fresh serial number)
    assigned,     \* history: [source file -> chunk indexes given to submissions]
    freed,        \* history: [source file -> indexes freed by deleting the highest pending chunk]
    hub,          \* the external dataset store: the records uploaded to it so far
    threads,      \* [worker -> the request it serves step by step: its position and
                  \* its local variables]
    response      \* what the request handled last gave out: its answer, and the
                  \* upload calls of a push

vars == <<pendTxt, pendMeta, apprTxt, apprMeta, pendChunks, apprChunks,
          nextId, assigned, freed, hub, threads, response>>

store == <<pendTxt, pendMeta, apprTxt, apprMeta, pendChunks, apprChunks>>

\* ---------------------------------------------------------------- bounds
MaxIds == 2        \* number of uuid4 values the model can draw
MaxChunks == 2     \* highest chunk index the model assigns
MaxBatch == 2      \* longest chunks array of a submit-batch request

\* ---------------------------------------------------------------- inputs
Files == {"g10_sci"}
MoreFiles == {"g9_math"}        \* a second file name, for the requests about two files
AllFiles == Files \cup MoreFiles
Stages == {"raw", "cleaned"}
Types == {"raw", "cleaned", "chunk", "bogus"}            \* "type" of an admin request
BulkTypes == {"raw", "cleaned", "chunks", "bogus"}       \* "type" of an approve-all request
Contents == {"a", "bb"}
Languages == {"ta"}
Sources == {"gov_textbook"}
Texts == {"p"}
Categories == {"education"}
Missing == "<missing>"      \* a field that is absent from the request body (or empty)
None == "<none>"            \* a field a request or a response does not carry
NoPatch == <<>>             \* a request without a metadata object
Patches == {NoPatch, [status |-> "approved"]}
StampPatches == Patches \cup {[updated_by |-> "intern"]}   \* and a patch of a stamp key
Indexes == 1..MaxChunks
NoIndex == 0                \* chunk_index is None: the request carries no index

\* The worker threads of the server: each serves one request at a time.  A
\* worker that serves none holds the record idle; the local variables of a
\* request are its content, the metadata or chunk it built or read (in a
\* sequence, empty before that), its chunk index, the listing a bulk approval
\* loops over with the position the loop is at, and the status code of its
\* answer (0 before it).
Workers == {"w1", "w2"}
idle ==
    [op |-> "idle", type |-> None, filename |-> None, pc |-> "idle", content |-> "",
     metadata |-> <<>>, chunk_index |-> NoIndex, todo |-> <<>>, at |-> 0, code |-> 0]

\* A directory without the file k, and with the file k holding v.
Remove(dir, k) == [x \in (DOMAIN dir) \ {k} |-> dir[x]]
Put(dir, k, v) == (k :> v) @@ dir
Files_in(dir) == DOMAIN dir

\* datetime.now().isoformat(): the model keeps one instant, no handler compares stamps.
Now == "t0"

\* The three kinds of a push, and the results of a push that uploaded nothing.
Kinds == {"raw", "cleaned", "chunked"}
NoResults == [k \in Kinds |-> [uploaded |-> 0, failed |-> 0, files |-> {}]]

\* The answer of an endpoint: the status code, the fields of the JSON body
\* that carry data (chunk_index, the indexes of chunks, approved_count, the
\* results of a push), and the upload calls a push made to the external API.
Resp(ep, code, index, chunks, count) ==
    [ep |-> ep, code |-> code, chunk_index |-> index, chunks |-> chunks,
     approved_count |-> count, type |-> None, results |-> NoResults, handed |-> <<>>]
Fail(ep, code) == Resp(ep, code, NoIndex, {}, 0)
Ok(ep) == Resp(ep, 200, NoIndex, {}, 0)

\* ---------------------------------------------------------------- raw stage
generate_metadata(id, filename, language, source, content) ==
    [id |-> id, filename |-> filename, language |-> language, source |-> source,
     content_length |-> Len(content), submitted_at |-> Now, status |-> "pending",
     submitted_by |-> "collector"]

\* Mutant of already_pending: the existence check looks under the approved root.
already_pending_approved_root(stage, filename) == filename \in DOMAIN apprTxt[stage]

\* os.path.exists(content_path): the check that guards a submission.
already_pending(stage, filename) == filename \in Files_in(pendTxt[stage])

\* The two writes that end submit_raw_data and submit_cleaned_data.
save_pending(stage, filename, content, metadata) ==
    /\ pendTxt' = [pendTxt EXCEPT ![stage] = Put(@, filename, content)]
    /\ pendMeta' = [pendMeta EXCEPT ![stage] = Put(@, filename, metadata)]

\* The uuid4 is drawn before the existence check; a refused submission drops it
\* unseen, so the serial number advances on the accepted ones only.
submit_raw_data(filename, language, source, content) ==
    /\ \/ /\ content = Missing
          /\ response' = Fail("raw/submit", 400)
          /\ UNCHANGED <<store, nextId, assigned, freed>>
       \/ /\ content # Missing
          /\ already_pending("raw", filename)
          /\ response' = Fail("raw/submit", 409)
          /\ UNCHANGED <<store, nextId, assigned, freed>>
       \/ /\ content # Missing
          /\ ~already_pending("raw", filename)
          /\ nextId <= MaxIds
          /\ save_pending("raw", filename, content,
                          generate_metadata(nextId, filename, language, source, content))
          /\ nextId' = nextId + 1
          /\ response' = Ok("raw/submit")
          /\ UNCHANGED <<apprTxt, apprMeta, pendChunks, apprChunks, assigned, freed>>
    /\ UNCHANGED <<hub, threads>>

\* ---------------------------------------------------------------- cleaned stage
\* dict.get(key, default) on the metadata of the approved raw record.
Get(metadata, key, default) == IF key \in DOMAIN metadata THEN metadata[key] ELSE default

cleaned_metadata(id, filename, original_metadata, content) ==
    [id |-> id, filename |-> filename,
     language |-> Get(original_metadata, "language", "ta"),
     source |-> Get(original_metadata, "source", "unknown"),
     original_raw_id |-> Get(original_metadata, "id", ""),
     content_length |-> Len(content), submitted_at |-> Now, status |-> "pending",
     submitted_by |-> "cleaner"]

\* Mutant of raw_approved: the lineage check accepts a raw file that is only pending.
raw_approved_or_pending(filename) ==
    filename \in DOMAIN apprTxt["raw"] \cup DOMAIN pendTxt["raw"]

\* os.path.exists(raw_path): the lineage check of a cleaned submission.
raw_approved(filename) == filename \in Files_in(apprTxt["raw"])

submit_cleaned_data(filename, content) ==
    /\ \/ /\ content = Missing
          /\ response' = Fail("cleaning/submit", 400)
          /\ UNCHANGED <<store, nextId, assigned, freed>>
       \/ /\ content # Missing
          /\ ~raw_approved(filename)
          /\ response' = Fail("cleaning/submit", 404)
          /\ UNCHANGED <<store, nextId, assigned, freed>>
       \/ /\ content # Missing
          /\ raw_approved(filename)
          /\ already_pending("cleaned", filename)
          /\ response' = Fail("cleaning/submit", 409)
          /\ UNCHANGED <<store, nextId, assigned, freed>>
       \/ /\ content # Missing
          /\ raw_approved(filename)
          /\ ~already_pending("cleaned", filename)
          /\ nextId <= MaxIds
          /\ LET original_metadata ==
                   IF filename \in Files_in(apprMeta["raw"])
                   THEN apprMeta["raw"][filename] ELSE <<>>
             IN save_pending("cleaned", filename, content,
                             cleaned_metadata(nextId, filename, original_metadata, content))
          /\ nextId' = nextId + 1
          /\ response' = Ok("cleaning/submit")
          /\ UNCHANGED <<apprTxt, apprMeta, pendChunks, apprChunks, assigned, freed>>
    /\ UNCHANGED <<hub, threads>>

\* ---------------------------------------------------------------- listings
\* list_pending / list_approved of the raw and cleaned tabs: the metadata records
\* read from the .meta.json files of the directory (their order is not modelled).
list_pending(stage) == {pendMeta[stage][k] : k \in Files_in(pendMeta[stage])}
list_approved(stage) == {apprMeta[stage][k] : k \in Files_in(apprMeta[stage])}

\* ---------------------------------------------------------------- chunk stage
RECURSIVE strip_underscores(_)
\* filename.replace('_', '')
strip_underscores(name) ==
    IF Len(name) = 0 THEN ""
    ELSE LET c == SubSeq(name, 1, 1)
             rest == strip_underscores(SubSeq(name, 2, Len(name)))
         IN IF c = "_" THEN rest ELSE c \o rest

\* s[:n]
Prefix(s, n) == IF Len(s) > n THEN SubSeq(s, 1, n) ELSE s

\* f"{index:02d}"
two_digits(index) == IF index < 10 THEN "0" \o ToString(index) ELSE ToString(index)

\* Mutant of generate_chunk_id: the file name is not cut to 10 characters.
generate_chunk_id_uncut(language, category, filename, index) ==
    language \o "_" \o (IF Len(category) > 3 THEN SubSeq(category, 1, 3) ELSE category)
      \o "_" \o strip_underscores(filename) \o "_" \o two_digits(index)

generate_chunk_id(language, category, filename, index) ==
    LET cat_short == IF Len(category) > 3 THEN SubSeq(category, 1, 3) ELSE category
        file_short == Prefix(strip_underscores(filename), 10)
    IN language \o "_" \o cat_short \o "_" \o file_short \o "_" \o two_digits(index)

\* The .json files of a chunk folder; a folder that does not exist holds none.
chunk_files(root, folder) == IF folder \in DOMAIN root THEN DOMAIN root[folder] ELSE {}

\* Mutant of existing_count: the approved folder is not counted.
existing_count_pending_only(filename) == Cardinality(chunk_files(pendChunks, filename))

\* existing_count of submit_chunk and submit_batch: pending plus approved files.
existing_count(filename) ==
    Cardinality(chunk_files(pendChunks, filename))
      + Cardinality(chunk_files(apprChunks, filename))

\* Mutant of cleaned_approved: the lineage check accepts a cleaned file that is
\* only pending.
cleaned_approved_or_pending(filename) ==
    filename \in DOMAIN apprTxt["cleaned"] \cup DOMAIN pendTxt["cleaned"]

\* os.path.exists(cleaned_path): the lineage check of a chunk submission.
cleaned_approved(filename) == filename \in Files_in(apprTxt["cleaned"])

\* language read from the approved cleaned metadata, 'ta' without it.
chunk_language(filename) ==
    IF filename \in Files_in(apprMeta["cleaned"])
    THEN Get(apprMeta["cleaned"][filename], "language", "ta") ELSE "ta"

new_chunk(filename, text, category, chunk_index) ==
    [chunk_id |-> generate_chunk_id(chunk_language(filename), category, filename, chunk_index),
     text |-> text, language |-> chunk_language(filename), category |-> category,
     source |-> "unknown", chunk_index |-> chunk_index, source_file |-> filename,
     overlap_reference |-> "", created_at |-> Now, created_by |-> "chunker",
     text_length |-> Len(text)]

\* os.makedirs(pending_dir, exist_ok=True)
makedirs(root, folder) == IF folder \in DOMAIN root THEN root ELSE Put(root, folder, <<>>)

\* The chunk file chunk_<index:02d>.json written into (or over) a folder.
write_chunk(root, folder, index, chunk) ==
    [makedirs(root, folder) EXCEPT ![folder] = Put(@, index, chunk)]

\* Mutant of remove_chunk: the folder goes with the file.
remove_chunk_folder(root, folder, index) == Remove(root, folder)

\* os.remove of a chunk file.
remove_chunk(root, folder, index) == [root EXCEPT ![folder] = Remove(@, index)]

\* "Clean up empty directory": os.rmdir when the folder exists and lists nothing.
rmdir_if_empty(root, folder) ==
    IF folder \in DOMAIN root /\ DOMAIN root[folder] = {} THEN Remove(root, folder) ELSE root

submit_chunk(filename, text, category) ==
    /\ \/ /\ text = Missing
          /\ response' = Fail("chunking/submit", 400)
          /\ UNCHANGED <<store, nextId, assigned, freed>>
       \/ /\ text # Missing
          /\ ~cleaned_approved(filename)
          /\ response' = Fail("chunking/submit", 404)
          /\ UNCHANGED <<store, nextId, assigned, freed>>
       \/ /\ text # Missing
          /\ cleaned_approved(filename)
          /\ LET chunk_index == existing_count(filename) + 1
             IN /\ chunk_index <= MaxChunks
                /\ pendChunks' = write_chunk(pendChunks, filename, chunk_index,
                                             new_chunk(filename, text, category, chunk_index))
                /\ response' = Resp("chunking/submit", 200, chunk_index, {}, 0)
                /\ assigned' = [assigned EXCEPT ![filename] = @ \cup {chunk_index}]
                /\ freed' = [freed EXCEPT ![filename] = @ \ {chunk_index}]
          /\ UNCHANGED <<pendTxt, pendMeta, apprTxt, apprMeta, apprChunks, nextId>>
    /\ UNCHANGED <<hub, threads>>

\* The entries of a chunks array: a chunk with text and category, or an entry
\* without text, which the loop skips.
Entries == [text : Texts \cup {Missing}, category : Categories]
Batches == UNION {[1..n -> Entries] : n \in 1..MaxBatch}
NoBatch == <<>>             \* a chunks array that is absent or empty
skipped(chunk_data) == chunk_data.text = Missing

\* The indexes the loop of submit_batch writes: existing_count + i + 1 for the
\* (0-based) position i of every entry it does not skip.
batch_indexes(chunks_data, count) ==
    {count + i : i \in {j \in 1..Len(chunks_data) : ~skipped(chunks_data[j])}}

RECURSIVE write_batch(_, _, _, _, _)
\* The loop of submit_batch from position i (1-based) on.
write_batch(root, filename, chunks_data, count, i) ==
    IF i > Len(chunks_data) THEN root
    ELSE IF skipped(chunks_data[i])
         THEN write_batch(root, filename, chunks_data, count, i + 1)
         ELSE write_batch(
                write_chunk(root, filename, count + i,
                            new_chunk(filename, chunks_data[i].text,
                                      chunks_data[i].category, count + i)),
                filename, chunks_data, count, i + 1)

submit_batch(filename, chunks_data) ==
    /\ \/ /\ chunks_data = NoBatch
          /\ response' = Fail("chunking/submit-batch", 400)
          /\ UNCHANGED <<store, nextId, assigned, freed>>
       \/ /\ chunks_data # NoBatch
          /\ ~cleaned_approved(filename)
          /\ response' = Fail("chunking/submit-batch", 404)
          /\ UNCHANGED <<store, nextId, assigned, freed>>
       \/ /\ chunks_data # NoBatch
          /\ cleaned_approved(filename)
          /\ LET count == existing_count(filename)
                 created == batch_indexes(chunks_data, count)
             IN /\ count + Len(chunks_data) <= MaxChunks
                /\ pendChunks' = write_batch(makedirs(pendChunks, filename), filename,
                                             chunks_data, count, 1)
                /\ response' = Resp("chunking/submit-batch", 200, NoIndex, created, 0)
                /\ assigned' = [assigned EXCEPT ![filename] = @ \cup created]
                /\ freed' = [freed EXCEPT ![filename] = @ \ created]
          /\ UNCHANGED <<pendTxt, pendMeta, apprTxt, apprMeta, apprChunks, nextId>>
    /\ UNCHANGED <<hub, threads>>

\* The highest index among the pending chunk files of a folder.
is_highest_pending(filename, chunk_index) ==
    \A i \in chunk_files(pendChunks, filename) : i <= chunk_index

\* Mutant of delete_chunk: a chunk that is not pending is looked up, and
\* removed, under the approved root.
delete_chunk_either_root(filename, chunk_index) ==
    /\ \/ /\ chunk_index \notin chunk_files(pendChunks, filename)
          /\ chunk_index \notin chunk_files(apprChunks, filename)
          /\ response' = Fail("chunking/chunk", 404)
          /\ UNCHANGED <<store, nextId, assigned, freed>>
       \/ /\ chunk_index \notin chunk_files(pendChunks, filename)
          /\ chunk_index \in chunk_files(apprChunks, filename)
          /\ apprChunks' = remove_chunk(apprChunks, filename, chunk_index)
          /\ response' = Ok("chunking/chunk")
          /\ UNCHANGED <<pendTxt, pendMeta, apprTxt, apprMeta, pendChunks, nextId,
                         assigned, freed>>
       \/ /\ chunk_index \in chunk_files(pendChunks, filename)
          /\ pendChunks' = remove_chunk(pendChunks, filename, chunk_index)
          /\ response' = Ok("chunking/chunk")
          /\ freed' = IF is_highest_pending(filename, chunk_index)
                      THEN [freed EXCEPT ![filename] = @ \cup {chunk_index}] ELSE freed
          /\ UNCHANGED <<pendTxt, pendMeta, apprTxt, apprMeta, apprChunks, nextId, assigned>>
    /\ UNCHANGED <<hub, threads>>

delete_chunk(filename, chunk_index) ==
    /\ \/ /\ chunk_index \notin chunk_files(pendChunks, filename)
          /\ response' = Fail("chunking/chunk", 404)
          /\ UNCHANGED <<store, nextId, assigned, freed>>
       \/ /\ chunk_index \in chunk_files(pendChunks, filename)
          /\ pendChunks' = remove_chunk(pendChunks, filename, chunk_index)
          /\ response' = Ok("chunking/chunk")
          /\ freed' = IF is_highest_pending(filename, chunk_index)
                      THEN [freed EXCEPT ![filename] = @ \cup {chunk_index}] ELSE freed
          /\ UNCHANGED <<pendTxt, pendMeta, apprTxt, apprMeta, apprChunks, nextId, assigned>>
    /\ UNCHANGED <<hub, threads>>

\* ---------------------------------------------------------------- admin: item
\* get_pending_item: the pending item read for editing; nothing is written.
get_pending_item(type, filename, chunk_index) ==
    /\ \/ /\ type \in Stages
          /\ response' = IF filename \in Files_in(pendTxt[type])
                         THEN Ok("admin/item") ELSE Fail("admin/item", 404)
       \/ /\ type = "chunk"
          /\ response' = IF chunk_index = NoIndex THEN Fail("admin/item", 400)
                         ELSE IF chunk_index \in chunk_files(pendChunks, filename)
                              THEN Ok("admin/item") ELSE Fail("admin/item", 404)
       \/ /\ type \notin Stages \cup {"chunk"}
          /\ response' = Fail("admin/item", 400)
    /\ UNCHANGED <<store, nextId, assigned, freed, hub, threads>>

\* ---------------------------------------------------------------- admin: update
\* Mutant of updated_metadata: a key the metadata already has keeps its value.
updated_metadata_existing_wins(metadata, patch) ==
    [updated_at |-> Now, updated_by |-> "admin"] @@ (metadata @@ patch)

\* metadata.update(patch), then the edit stamp.
updated_metadata(metadata, patch) ==
    [updated_at |-> Now, updated_by |-> "admin"] @@ (patch @@ metadata)

\* os.path.exists(content_path): the item an update addresses.
item_exists(stage, filename) == filename \in Files_in(pendTxt[stage])

\* The raw and the cleaned branch of update_pending_item (the same code per stage).
update_file(stage, filename, content, patch) ==
    \/ /\ ~item_exists(stage, filename)
       /\ response' = Fail("admin/update", 404)
       /\ UNCHANGED store
    \/ /\ item_exists(stage, filename)
       /\ pendTxt' = IF content = Missing THEN pendTxt
                     ELSE [pendTxt EXCEPT ![stage] = Put(@, filename, content)]
       /\ pendMeta' = [pendMeta EXCEPT ![stage] =
                         Put(@, filename, updated_metadata(@[filename], patch))]
       /\ response' = Ok("admin/update")
       /\ UNCHANGED <<apprTxt, apprMeta, pendChunks, apprChunks>>

update_pending_item(type, filename, content, patch) ==
    /\ \/ /\ type \in Stages
          /\ update_file(type, filename, content, patch)
       \/ /\ type \notin Stages \cup {"chunk"}
          /\ response' = Fail("admin/update", 400)
          /\ UNCHANGED store
    /\ UNCHANGED <<nextId, assigned, freed, hub, threads>>

\* The chunk branch of update_pending_item: the chunk object of the request,
\* stamped, is written over the pending chunk file as it is; a request without
\* chunk object changes nothing and is answered as a success.  chunk_data is
\* the chunk object in a sequence, the empty sequence without it.
update_pending_chunk(filename, chunk_index, chunk_data) ==
    /\ \/ /\ chunk_index = NoIndex
          /\ response' = Fail("admin/update", 400)
          /\ UNCHANGED store
       \/ /\ chunk_index # NoIndex
          /\ chunk_index \notin chunk_files(pendChunks, filename)
          /\ response' = Fail("admin/update", 404)
          /\ UNCHANGED store
       \/ /\ chunk_index # NoIndex
          /\ chunk_index \in chunk_files(pendChunks, filename)
          /\ pendChunks' =
               IF chunk_data = <<>> THEN pendChunks
               ELSE write_chunk(pendChunks, filename, chunk_index,
                                [updated_at |-> Now, updated_by |-> "admin"] @@ chunk_data[1])
          /\ response' = Ok("admin/update")
          /\ UNCHANGED <<pendTxt, pendMeta, apprTxt, apprMeta, apprChunks>>
    /\ UNCHANGED <<nextId, assigned, freed, hub, threads>>

\* ---------------------------------------------------------------- admin: approve
\* Mutant of approved_metadata: the approval stamp leaves status as it was.
approved_metadata_status_kept(metadata) ==
    [approved_at |-> Now, approved_by |-> "admin"] @@ metadata

approved_metadata(metadata) ==
    [status |-> "approved", approved_at |-> Now, approved_by |-> "admin"] @@ metadata

\* Mutant of move_to_approved: the pending metadata file is not removed.
move_to_approved_keeps_pending(stage, filename, metadata) ==
    /\ apprTxt' = [apprTxt EXCEPT ![stage] = Put(@, filename, pendTxt[stage][filename])]
    /\ pendTxt' = [pendTxt EXCEPT ![stage] = Remove(@, filename)]
    /\ apprMeta' = [apprMeta EXCEPT ![stage] = Put(@, filename, metadata)]
    /\ pendMeta' = pendMeta

\* shutil.move of the content, the stamped metadata written under the approved
\* root, os.remove of the pending metadata.
move_to_approved(stage, filename, metadata) ==
    /\ apprTxt' = [apprTxt EXCEPT ![stage] = Put(@, filename, pendTxt[stage][filename])]
    /\ pendTxt' = [pendTxt EXCEPT ![stage] = Remove(@, filename)]
    /\ apprMeta' = [apprMeta EXCEPT ![stage] = Put(@, filename, metadata)]
    /\ pendMeta' = [pendMeta EXCEPT ![stage] = Remove(@, filename)]

\* os.path.exists(pending_content): the submission an approval addresses.
pending_exists(stage, filename) == filename \in Files_in(pendTxt[stage])

\* The raw and the cleaned branch of approve_submission.
approve_file(stage, filename) ==
    \/ /\ ~pending_exists(stage, filename)
       /\ response' = Fail("admin/approve", 404)
       /\ UNCHANGED store
    \/ /\ pending_exists(stage, filename)
       /\ move_to_approved(stage, filename, approved_metadata(pendMeta[stage][filename]))
       /\ response' = Ok("admin/approve")
       /\ UNCHANGED <<pendChunks, apprChunks>>

approved_chunk(chunk) ==
    [status |-> "approved", approved_at |-> Now, approved_by |-> "admin"] @@ chunk

\* Mutant of approve_chunk: the approved folder is created before the pending
\* chunk is looked up.
approve_chunk_makedirs_first(filename, chunk_index) ==
    \/ /\ chunk_index = NoIndex
       /\ response' = Fail("admin/approve", 400)
       /\ UNCHANGED store
    \/ /\ chunk_index # NoIndex
       /\ chunk_index \notin chunk_files(pendChunks, filename)
       /\ apprChunks' = makedirs(apprChunks, filename)
       /\ response' = Fail("admin/approve", 404)
       /\ UNCHANGED <<pendTxt, pendMeta, apprTxt, apprMeta, pendChunks>>
    \/ /\ chunk_index # NoIndex
       /\ chunk_index \in chunk_files(pendChunks, filename)
       /\ apprChunks' = write_chunk(apprChunks, filename, chunk_index,
                                    approved_chunk(pendChunks[filename][chunk_index]))
       /\ pendChunks' = rmdir_if_empty(remove_chunk(pendChunks, filename, chunk_index),
                                       filename)
       /\ response' = Ok("admin/approve")
       /\ UNCHANGED <<pendTxt, pendMeta, apprTxt, apprMeta>>

\* The chunk branch of approve_submission.
approve_chunk(filename, chunk_index) ==
    \/ /\ chunk_index = NoIndex
       /\ response' = Fail("admin/approve", 400)
       /\ UNCHANGED store
    \/ /\ chunk_index # NoIndex
       /\ chunk_index \notin chunk_files(pendChunks, filename)
       /\ response' = Fail("admin/approve", 404)
       /\ UNCHANGED store
    \/ /\ chunk_index # NoIndex
       /\ chunk_index \in chunk_files(pendChunks, filename)
       /\ apprChunks' = write_chunk(apprChunks, filename, chunk_index,
                                    approved_chunk(pendChunks[filename][chunk_index]))
       /\ pendChunks' = rmdir_if_empty(remove_chunk(pendChunks, filename, chunk_index),
                                       filename)
       /\ response' = Ok("admin/approve")
       /\ UNCHANGED <<pendTxt, pendMeta, apprTxt, apprMeta>>

approve_submission(type, filename, chunk_index) ==
    /\ \/ /\ type \in Stages
          /\ approve_file(type, filename)
       \/ /\ type = "chunk"
          /\ approve_chunk(filename, chunk_index)
       \/ /\ type \notin Stages \cup {"chunk"}
          /\ response' = Fail("admin/approve", 400)
          /\ UNCHANGED store
    /\ UNCHANGED <<nextId, assigned, freed, hub, threads>>

\* ---------------------------------------------------------------- admin: reject
\* Mutant of reject_file: the metadata file is left behind.
reject_file_keeps_metadata(stage, filename) ==
    /\ pendTxt' = [pendTxt EXCEPT ![stage] = Remove(@, filename)]
    /\ response' = Ok("admin/reject")
    /\ UNCHANGED <<pendMeta, apprTxt, apprMeta, pendChunks, apprChunks, freed>>

\* The raw and the cleaned branch of reject_submission: both removals are
\* guarded by os.path.exists, the answer is a success either way.
reject_file(stage, filename) ==
    /\ pendTxt' = [pendTxt EXCEPT ![stage] = Remove(@, filename)]
    /\ pendMeta' = [pendMeta EXCEPT ![stage] = Remove(@, filename)]
    /\ response' = Ok("admin/reject")
    /\ UNCHANGED <<apprTxt, apprMeta, pendChunks, apprChunks, freed>>

\* The chunk branch of reject_submission.
reject_chunk(filename, chunk_index) ==
    \/ /\ chunk_index = NoIndex
       /\ response' = Fail("admin/reject", 400)
       /\ UNCHANGED <<store, freed>>
    \/ /\ chunk_index # NoIndex
       /\ pendChunks' =
            rmdir_if_empty(
              IF chunk_index \in chunk_files(pendChunks, filename)
              THEN remove_chunk(pendChunks, filename, chunk_index) ELSE pendChunks,
              filename)
       /\ response' = Ok("admin/reject")
       /\ freed' = IF /\ chunk_index \in chunk_files(pendChunks, filename)
                      /\ is_highest_pending(filename, chunk_index)
                   THEN [freed EXCEPT ![filename] = @ \cup {chunk_index}] ELSE freed
       /\ UNCHANGED <<pendTxt, pendMeta, apprTxt, apprMeta, apprChunks>>

reject_submission(type, filename, chunk_index) ==
    /\ \/ /\ type \in Stages
          /\ reject_file(type, filename)
       \/ /\ type = "chunk"
          /\ reject_chunk(filename, chunk_index)
       \/ /\ type \notin Stages \cup {"chunk"}
          /\ response' = Fail("admin/reject", 400)
          /\ UNCHANGED <<store, freed>>
    /\ UNCHANGED <<nextId, assigned, hub, threads>>

\* ---------------------------------------------------------------- admin: approve-all
\* The stamp of approve_all: status and approved_at, no approved_by.
bulk_approved(record) == [status |-> "approved", approved_at |-> Now] @@ record

\* Mutant of approvable: the loop ends after the first file of the listing.
approvable_first_only(stage) ==
    LET all == DOMAIN pendTxt[stage] \cap DOMAIN pendMeta[stage]
    IN IF all = {} THEN {} ELSE {CHOOSE k \in all : TRUE}

\* The .txt files of the pending directory that have a metadata file beside them.
approvable(stage) == Files_in(pendTxt[stage]) \cap Files_in(pendMeta[stage])

\* The raw and the cleaned branch of approve_all: the loop over the listing.
approve_all_files(stage) ==
    LET moved == approvable(stage)
    IN /\ apprTxt' = [apprTxt EXCEPT ![stage] =
                        [k \in moved |-> pendTxt[stage][k]] @@ @]
       /\ apprMeta' = [apprMeta EXCEPT ![stage] =
                        [k \in moved |-> bulk_approved(pendMeta[stage][k])] @@ @]
       /\ pendTxt' = [pendTxt EXCEPT ![stage] =
                        [k \in Files_in(@) \ moved |-> @[k]]]
       /\ pendMeta' = [pendMeta EXCEPT ![stage] =
                        [k \in Files_in(@) \ moved |-> @[k]]]
       /\ response' = Resp("admin/approve-all", 200, NoIndex, {}, Cardinality(moved))
       /\ UNCHANGED <<pendChunks, apprChunks>>

\* Mutant of approve_all_chunks: the emptied pending folder is left in place.
approve_all_chunks_keeps_folder(target_file) ==
    \/ /\ target_file = Missing
       /\ response' = Fail("admin/approve-all", 400)
       /\ UNCHANGED store
    \/ /\ target_file # Missing
       /\ target_file \notin DOMAIN pendChunks
       /\ response' = Resp("admin/approve-all", 200, NoIndex, {}, 0)
       /\ UNCHANGED store
    \/ /\ target_file # Missing
       /\ target_file \in DOMAIN pendChunks
       /\ LET moved == DOMAIN pendChunks[target_file]
              folder == makedirs(apprChunks, target_file)
          IN /\ apprChunks' = [folder EXCEPT ![target_file] =
                   [i \in moved |-> bulk_approved(pendChunks[target_file][i])] @@ @]
             /\ pendChunks' = [pendChunks EXCEPT ![target_file] = <<>>]
             /\ response' = Resp("admin/approve-all", 200, NoIndex, {}, Cardinality(moved))
       /\ UNCHANGED <<pendTxt, pendMeta, apprTxt, apprMeta>>

\* The chunks branch of approve_all for one source folder.
approve_all_chunks(target_file) ==
    \/ /\ target_file = Missing
       /\ response' = Fail("admin/approve-all", 400)
       /\ UNCHANGED store
    \/ /\ target_file # Missing
       /\ target_file \notin DOMAIN pendChunks
       /\ response' = Resp("admin/approve-all", 200, NoIndex, {}, 0)
       /\ UNCHANGED store
    \/ /\ target_file # Missing
       /\ target_file \in DOMAIN pendChunks
       /\ LET moved == DOMAIN pendChunks[target_file]
              folder == makedirs(apprChunks, target_file)
          IN /\ apprChunks' = [folder EXCEPT ![target_file] =
                   [i \in moved |-> bulk_approved(pendChunks[target_file][i])] @@ @]
             /\ pendChunks' = Remove(pendChunks, target_file)
             /\ response' = Resp("admin/approve-all", 200, NoIndex, {}, Cardinality(moved))
       /\ UNCHANGED <<pendTxt, pendMeta, apprTxt, apprMeta>>

\* A type other than raw, cleaned and chunks falls through every branch and is
\* answered as a success with approved_count 0.
approve_all(type, target_file) ==
    /\ \/ /\ type \in Stages
          /\ approve_all_files(type)
       \/ /\ type = "chunks"
          /\ approve_all_chunks(target_file)
       \/ /\ type \notin Stages \cup {"chunks"}
          /\ response' = Resp("admin/approve-all", 200, NoIndex, {}, 0)
          /\ UNCHANGED store
    /\ UNCHANGED <<nextId, assigned, freed, hub, threads>>

\* ---------------------------------------------------------------- admin: stats
\* get_stats: the .txt files of the raw and cleaned directories and the .json
\* files of the chunk folders, counted per root.
get_stats ==
    [k \in Kinds |->
       IF k \in Stages
       THEN [pending |-> Cardinality(Files_in(pendTxt[k])),
             approved |-> Cardinality(Files_in(apprTxt[k]))]
       ELSE [pending |-> Cardinality({pos \in (DOMAIN pendChunks) \X Indexes :
                                        pos[2] \in DOMAIN pendChunks[pos[1]]}),
             approved |-> Cardinality({pos \in (DOMAIN apprChunks) \X Indexes :
                                         pos[2] \in DOMAIN apprChunks[pos[1]]})]]

\* ---------------------------------------------------------------- admin: push-to-hf
PushTypes == {"raw", "cleaned", "chunked", "all", "bogus"}
Tokens == {"hf_token"}

\* os.listdir: the entries of a directory, one after another.
listdir(entries) ==
    CHOOSE seq \in [1..Cardinality(entries) -> entries] :
       \A i, j \in 1..Cardinality(entries) : i # j => seq[i] # seq[j]

\* Mutant of approved_dir: the loops of a push read the pending directories.
pending_dir(kind) ==
    IF kind \in Stages
    THEN [name \in DOMAIN pendTxt[kind] |->
            [kind |-> kind, path |-> name, content |-> pendTxt[kind][name],
             record |-> IF name \in DOMAIN pendMeta[kind]
                        THEN <<pendMeta[kind][name]>> ELSE <<>>]]
    ELSE [pos \in {<<f, i>> \in (DOMAIN pendChunks) \X Indexes : i \in DOMAIN pendChunks[f]} |->
            [kind |-> kind, path |-> pos[1] \o "/chunk_" \o two_digits(pos[2]) \o ".json",
             content |-> "", record |-> <<pendChunks[pos[1]][pos[2]]>>]]

\* What the loop of a kind reads: for every .txt file of the approved raw or
\* cleaned directory its content and, when the .meta.json file is there, its
\* metadata; for every .json file of an approved chunk folder the chunk.
approved_dir(kind) ==
    IF kind \in Stages
    THEN [name \in DOMAIN apprTxt[kind] |->
            [kind |-> kind, path |-> name, content |-> apprTxt[kind][name],
             record |-> IF name \in DOMAIN apprMeta[kind]
                        THEN <<apprMeta[kind][name]>> ELSE <<>>]]
    ELSE [pos \in {<<f, i>> \in (DOMAIN apprChunks) \X Indexes : i \in DOMAIN apprChunks[f]} |->
            [kind |-> kind, path |-> pos[1] \o "/chunk_" \o two_digits(pos[2]) \o ".json",
             content |-> "", record |-> <<apprChunks[pos[1]][pos[2]]>>]]

\* The record handed to upload_raw_file, upload_cleaned_file or upload_chunk.
upload_item(entry) == [entry EXCEPT !.record = @[1]]

\* The results of a kind before its loop.
no_uploads == [uploaded |-> 0, failed |-> 0, files |-> {}, handed |-> <<>>]

\* An upload call and its outcome.
upload_call(entry, ok) == [item |-> upload_item(entry), ok |-> upload_item(entry) \in ok]

\* Mutant of upload_kind: the first failed upload ends the loop.
upload_kind_abort(kind, ok) ==
    LET dir == approved_dir(kind)
        n == Cardinality(DOMAIN dir)
        names == listdir(DOMAIN dir)
        loop[i \in 1..(n + 1)] ==
            IF i > n THEN no_uploads
            ELSE LET entry == dir[names[i]]
                 IN IF entry.record = <<>> THEN [no_uploads EXCEPT !.failed = 1]
                    ELSE IF upload_item(entry) \notin ok
                         THEN [no_uploads EXCEPT !.failed = 1,
                                                 !.handed = <<upload_call(entry, ok)>>]
                         ELSE [loop[i + 1] EXCEPT
                                 !.uploaded = @ + 1,
                                 !.files = @ \cup {entry.path},
                                 !.handed = <<upload_call(entry, ok)>> \o @]
    IN loop[1]

\* One of the three loops of push_to_huggingface, from entry i of the listing
\* on: an entry whose metadata cannot be read counts as failed without an
\* upload; every other entry is handed to the external API and counts as
\* uploaded or as failed by the outcome (ok holds the records whose upload
\* succeeds).
upload_kind(kind, ok) ==
    LET dir == approved_dir(kind)
        n == Cardinality(DOMAIN dir)
        names == listdir(DOMAIN dir)
        loop[i \in 1..(n + 1)] ==
            IF i > n THEN no_uploads
            ELSE LET entry == dir[names[i]]
                 IN IF entry.record = <<>>
                    THEN [loop[i + 1] EXCEPT !.failed = @ + 1]
                    ELSE IF upload_item(entry) \in ok
                         THEN [loop[i + 1] EXCEPT
                                 !.uploaded = @ + 1,
                                 !.files = @ \cup {entry.path},
                                 !.handed = <<upload_call(entry, ok)>> \o @]
                         ELSE [loop[i + 1] EXCEPT
                                 !.failed = @ + 1,
                                 !.handed = <<upload_call(entry, ok)>> \o @]
    IN loop[1]

\* The records a push of a type can hand over, of which the external API
\* accepts some.
uploadable(type) ==
    UNION {{upload_item(approved_dir(kind)[e]) :
              e \in {x \in DOMAIN approved_dir(kind) : approved_dir(kind)[x].record # <<>>}} :
           kind \in {k \in Kinds : type \in {k, "all"}}}

\* push_to_huggingface: a request without type or without token is refused; the
\* loops of the kinds the type names run one after the other, raw, cleaned,
\* chunked; a type that names no kind runs none and is answered like the others.
push_to_huggingface(type, token, ok) ==
    /\ \/ /\ type = Missing \/ token = Missing
          /\ response' = Fail("admin/push-to-hf", 400)
          /\ UNCHANGED hub
       \/ /\ type # Missing /\ token # Missing
          /\ LET out == [k \in Kinds |-> IF type \in {k, "all"}
                                         THEN upload_kind(k, ok) ELSE no_uploads]
                 handed == out["raw"].handed \o out["cleaned"].handed \o out["chunked"].handed
             IN /\ response' =
                     [Ok("admin/push-to-hf") EXCEPT
                        !.type = type,
                        !.results = [k \in Kinds |->
                                       [uploaded |-> out[k].uploaded, failed |-> out[k].failed,
                                        files |-> out[k].files]],
                        !.handed = handed]
                /\ hub' = hub \cup {handed[i].item : i \in {j \in 1..Len(handed) : handed[j].ok}}
    /\ UNCHANGED <<store, nextId, assigned, freed, threads>>

\* ---------------------------------------------------------------- publish adapter
\* What upload_chunks hands to the external API for a chunk: the file path is
\* built from the chunk_index inside the chunk, the body is the chunk.
chunk_item(folder_name, chunk) ==
    [kind |-> "chunked",
     path |-> folder_name \o "/chunk_" \o two_digits(chunk.chunk_index) \o ".json",
     content |-> "", record |-> chunk]

\* What upload_raw_file and upload_cleaned_file hand over for an approved .txt
\* file: its content and its metadata, the empty object without .meta.json.
stage_item(stage, name) ==
    [kind |-> stage, path |-> name, content |-> apprTxt[stage][name],
     record |-> IF name \in DOMAIN apprMeta[stage] THEN apprMeta[stage][name] ELSE <<>>]

\* upload_chunks: a service without token uploads nothing and reports a
\* failure.  The loop over the chunks runs inside one try block: every upload
\* the API accepts adds one to uploaded_count, the first upload that raises
\* ends the loop and the result is a failure without count.  ok holds the
\* records the API accepts; count is in a sequence, empty when the result
\* carries none; handed are the calls made to the API.
upload_chunks(folder_name, chunks, is_configured, ok) ==
    LET n == Len(chunks)
        call(i) == [item |-> chunk_item(folder_name, chunks[i]),
                    ok |-> chunk_item(folder_name, chunks[i]) \in ok]
        loop[i \in 1..(n + 1)] ==
            IF i > n THEN [success |-> TRUE, count |-> <<0>>, handed |-> <<>>]
            ELSE IF ~call(i).ok
                 THEN [success |-> FALSE, count |-> <<>>, handed |-> <<call(i)>>]
                 ELSE LET rest == loop[i + 1]
                      IN [success |-> rest.success,
                          count |-> IF rest.success THEN <<rest.count[1] + 1>> ELSE <<>>,
                          handed |-> <<call(i)>> \o rest.handed]
    IN IF ~is_configured THEN [success |-> FALSE, count |-> <<>>, handed |-> <<>>]
       ELSE loop[1]

\* The results of a kind before its loop in sync_all_approved.
no_syncs == [success |-> 0, failed |-> 0, handed |-> <<>>]

\* The raw and the cleaned loop of sync_all_approved: one upload_raw_file or
\* upload_cleaned_file call per .txt file of the approved directory, counted
\* as success or as failed by its result.
sync_stage(stage, is_configured, ok) ==
    LET names == listdir(DOMAIN apprTxt[stage])
        n == Len(names)
        loop[i \in 1..(n + 1)] ==
            IF i > n THEN no_syncs
            ELSE LET item == stage_item(stage, names[i])
                 IN IF ~is_configured THEN [loop[i + 1] EXCEPT !.failed = @ + 1]
                    ELSE IF item \in ok
                         THEN [loop[i + 1] EXCEPT
                                 !.success = @ + 1,
                                 !.handed = <<[item |-> item, ok |-> TRUE]>> \o @]
                         ELSE [loop[i + 1] EXCEPT
                                 !.failed = @ + 1,
                                 !.handed = <<[item |-> item, ok |-> FALSE]>> \o @]
    IN loop[1]

\* The chunk loop of sync_all_approved: the .json files of a folder of the
\* approved chunk directory are read into a list, a list that is not empty
\* goes to upload_chunks, and the folder counts once, as success or as failed
\* by the result of that call.
sync_chunks(is_configured, ok) ==
    LET folders == listdir(DOMAIN apprChunks)
        n == Len(folders)
        chunks(folder_name) ==
            LET files == listdir(DOMAIN apprChunks[folder_name])
            IN [k \in 1..Len(files) |-> apprChunks[folder_name][files[k]]]
        loop[i \in 1..(n + 1)] ==
            IF i > n THEN no_syncs
            ELSE IF chunks(folders[i]) = <<>> THEN loop[i + 1]
                 ELSE LET result == upload_chunks(folders[i], chunks(folders[i]),
                                                  is_configured, ok)
                      IN IF result.success
                         THEN [loop[i + 1] EXCEPT !.success = @ + 1,
                                                  !.handed = result.handed \o @]
                         ELSE [loop[i + 1] EXCEPT !.failed = @ + 1,
                                                  !.handed = result.handed \o @]
    IN loop[1]

\* sync_all_approved: the three loops one after the other; the answer is a
\* success with the counts of the three kinds.
sync_all_approved(is_configured, ok) ==
    /\ LET out == [k \in Kinds |-> IF k = "chunked" THEN sync_chunks(is_configured, ok)
                                   ELSE sync_stage(k, is_configured, ok)]
           handed == out["raw"].handed \o out["cleaned"].handed \o out["chunked"].handed
       IN /\ response' =
               [Ok("sync_all_approved") EXCEPT
                  !.results = [k \in Kinds |->
                                 [success |-> out[k].success, failed |-> out[k].failed]],
                  !.handed = handed]
          /\ hub' = hub \cup {handed[i].item : i \in {j \in 1..Len(handed) : handed[j].ok}}
    /\ UNCHANGED <<store, nextId, assigned, freed, threads>>

\* ---------------------------------------------------------------- requests in steps
\* The handlers below run as the server runs them under concurrent requests:
\* one filesystem call per step, with no lock between the steps of two
\* requests.  The step that takes a request in makes its first filesystem
\* call too.
free(w) == threads[w].pc \in {"idle", "done"}
in_flight(w) == threads[w].pc \notin {"idle", "done", "stopped"}

\* The request a worker takes in, at its first position.
serving(op, type, filename, pc) ==
    [idle EXCEPT !.op = op, !.type = type, !.filename = filename, !.pc = pc]

\* The worker answers its request: the local variables are gone, the request
\* and the status code of its answer stay on record.
answered(t, code) == [serving(t.op, t.type, t.filename, "done") EXCEPT !.code = code]

\* The worker stopped in the middle of its request.
stopped(t) == serving(t.op, t.type, t.filename, "stopped")

submit_ep(stage) == IF stage = "raw" THEN "raw/submit" ELSE "cleaning/submit"

\* Mutant of remove_fails: removing a file that is gone is not an error.
remove_missing_ok(dir, name) == FALSE

\* os.remove(path) raises FileNotFoundError when the file is gone; the handler
\* catches it and answers 500.
remove_fails(dir, name) == name \notin Files_in(dir)

\* Mutant of open_w: a file that exists is left as it is.
open_keeps_existing(dir, name, data) == IF name \in DOMAIN dir THEN dir ELSE Put(dir, name, data)

\* open(path, 'w') and the write: the file is created or overwritten.
open_w(dir, name, data) == Put(dir, name, data)

\* submit_raw_data and submit_cleaned_data up to the existence check: the
\* lineage check and the read of the approved raw metadata (cleaned stage), the
\* metadata with its uuid4, os.path.exists(content_path).
begin_submit(w, stage, filename, language, source, content) ==
    /\ free(w)
    /\ \/ /\ stage = "cleaned" /\ ~raw_approved(filename)
          /\ threads' = [threads EXCEPT ![w] =
                           answered(serving("submit", stage, filename, "done"), 404)]
          /\ response' = Fail(submit_ep(stage), 404)
          /\ UNCHANGED nextId
       \/ /\ stage = "cleaned" => raw_approved(filename)
          /\ already_pending(stage, filename)
          /\ threads' = [threads EXCEPT ![w] =
                           answered(serving("submit", stage, filename, "done"), 409)]
          /\ response' = Fail(submit_ep(stage), 409)
          /\ UNCHANGED nextId
       \/ /\ stage = "cleaned" => raw_approved(filename)
          /\ ~already_pending(stage, filename)
          /\ nextId <= MaxIds
          /\ LET original_metadata ==
                   IF filename \in Files_in(apprMeta["raw"])
                   THEN apprMeta["raw"][filename] ELSE <<>>
                 metadata ==
                   IF stage = "raw"
                   THEN generate_metadata(nextId, filename, language, source, content)
                   ELSE cleaned_metadata(nextId, filename, original_metadata, content)
             IN threads' = [threads EXCEPT ![w] =
                              [serving("submit", stage, filename, "write_content")
                                 EXCEPT !.content = content, !.metadata = <<metadata>>]]
          /\ nextId' = nextId + 1
          /\ UNCHANGED response
    /\ UNCHANGED <<store, assigned, freed, hub>>

\* The two writes of a submission that passed the existence check.
submit_step(w) ==
    LET t == threads[w]
    IN /\ t.op = "submit"
       /\ \/ /\ t.pc = "write_content"
             /\ pendTxt' = [pendTxt EXCEPT ![t.type] = open_w(@, t.filename, t.content)]
             /\ threads' = [threads EXCEPT ![w].pc = "write_metadata"]
             /\ UNCHANGED <<pendMeta, response>>
          \/ /\ t.pc = "write_metadata"
             /\ pendMeta' = [pendMeta EXCEPT ![t.type] = open_w(@, t.filename, t.metadata[1])]
             /\ threads' = [threads EXCEPT ![w] = answered(t, 200)]
             /\ response' = Ok(submit_ep(t.type))
             /\ UNCHANGED pendTxt
       /\ UNCHANGED <<apprTxt, apprMeta, pendChunks, apprChunks, nextId, assigned, freed, hub>>

\* approve_submission, raw and cleaned branch, up to os.path.exists(pending_content).
begin_approve(w, stage, filename) ==
    /\ free(w)
    /\ \/ /\ ~pending_exists(stage, filename)
          /\ threads' = [threads EXCEPT ![w] =
                           answered(serving("approve", stage, filename, "done"), 404)]
          /\ response' = Fail("admin/approve", 404)
       \/ /\ pending_exists(stage, filename)
          /\ threads' = [threads EXCEPT ![w] =
                           serving("approve", stage, filename, "read_metadata")]
          /\ UNCHANGED response
    /\ UNCHANGED <<store, nextId, assigned, freed, hub>>

\* The steps of an approval after the check: the pending metadata is read and
\* stamped, the content is moved, the metadata is written under the approved
\* root, the pending metadata is removed.  A file that is gone when its step
\* comes raises, and the handler answers 500.
approve_step(w) ==
    LET t == threads[w]
        failed == /\ threads' = [threads EXCEPT ![w] = answered(t, 500)]
                  /\ response' = Fail("admin/approve", 500)
                  /\ UNCHANGED store
    IN /\ t.op = "approve"
       /\ \/ /\ t.pc = "read_metadata"
             /\ IF t.filename \in Files_in(pendMeta[t.type])
                THEN /\ threads' = [threads EXCEPT
                          ![w].pc = "move",
                          ![w].metadata = <<approved_metadata(pendMeta[t.type][t.filename])>>]
                     /\ UNCHANGED <<store, response>>
                ELSE failed
          \/ /\ t.pc = "move"
             /\ IF t.filename \in Files_in(pendTxt[t.type])
                THEN /\ apprTxt' = [apprTxt EXCEPT ![t.type] =
                                      Put(@, t.filename, pendTxt[t.type][t.filename])]
                     /\ pendTxt' = [pendTxt EXCEPT ![t.type] = Remove(@, t.filename)]
                     /\ threads' = [threads EXCEPT ![w].pc = "write_metadata"]
                     /\ UNCHANGED <<pendMeta, apprMeta, pendChunks, apprChunks, response>>
                ELSE failed
          \/ /\ t.pc = "write_metadata"
             /\ apprMeta' = [apprMeta EXCEPT ![t.type] = open_w(@, t.filename, t.metadata[1])]
             /\ threads' = [threads EXCEPT ![w].pc = "remove_metadata"]
             /\ UNCHANGED <<pendTxt, pendMeta, apprTxt, pendChunks, apprChunks, response>>
          \/ /\ t.pc = "remove_metadata"
             /\ IF remove_fails(pendMeta[t.type], t.filename)
                THEN failed
                ELSE /\ pendMeta' = [pendMeta EXCEPT ![t.type] = Remove(@, t.filename)]
                     /\ threads' = [threads EXCEPT ![w] = answered(t, 200)]
                     /\ response' = Ok("admin/approve")
                     /\ UNCHANGED <<pendTxt, apprTxt, apprMeta, pendChunks, apprChunks>>
       /\ UNCHANGED <<nextId, assigned, freed, hub>>

\* reject_submission, raw and cleaned branch, up to os.path.exists(pending_content).
begin_reject(w, stage, filename) ==
    /\ free(w)
    /\ threads' = [threads EXCEPT ![w] =
                     serving("reject", stage, filename,
                             IF filename \in Files_in(pendTxt[stage])
                             THEN "remove_content" ELSE "exists_metadata")]
    /\ UNCHANGED <<store, nextId, assigned, freed, hub, response>>

\* The steps of a rejection after the first check: os.remove of the content,
\* os.path.exists of the metadata, os.remove of the metadata.
reject_step(w) ==
    LET t == threads[w]
        failed == /\ threads' = [threads EXCEPT ![w] = answered(t, 500)]
                  /\ response' = Fail("admin/reject", 500)
                  /\ UNCHANGED store
        succeeded == /\ threads' = [threads EXCEPT ![w] = answered(t, 200)]
                     /\ response' = Ok("admin/reject")
    IN /\ t.op = "reject"
       /\ \/ /\ t.pc = "remove_content"
             /\ IF remove_fails(pendTxt[t.type], t.filename)
                THEN failed
                ELSE /\ pendTxt' = [pendTxt EXCEPT ![t.type] = Remove(@, t.filename)]
                     /\ threads' = [threads EXCEPT ![w].pc = "exists_metadata"]
                     /\ UNCHANGED <<pendMeta, apprTxt, apprMeta, pendChunks, apprChunks,
                                    response>>
          \/ /\ t.pc = "exists_metadata"
             /\ IF t.filename \in Files_in(pendMeta[t.type])
                THEN /\ threads' = [threads EXCEPT ![w].pc = "remove_metadata"]
                     /\ UNCHANGED response
                ELSE succeeded
             /\ UNCHANGED store
          \/ /\ t.pc = "remove_metadata"
             /\ IF remove_fails(pendMeta[t.type], t.filename)
                THEN failed
                ELSE /\ pendMeta' = [pendMeta EXCEPT ![t.type] = Remove(@, t.filename)]
                     /\ succeeded
                     /\ UNCHANGED <<pendTxt, apprTxt, apprMeta, pendChunks, apprChunks>>
       /\ UNCHANGED <<nextId, assigned, freed, hub>>

\* submit_chunk up to the count: the lineage check and the language read from
\* the approved cleaned metadata.
begin_chunk(w, filename, text, category) ==
    /\ free(w)
    /\ \/ /\ ~cleaned_approved(filename)
          /\ threads' = [threads EXCEPT ![w] =
                           answered(serving("submit_chunk", "chunk", filename, "done"), 404)]
          /\ response' = Fail("chunking/submit", 404)
       \/ /\ cleaned_approved(filename)
          /\ threads' = [threads EXCEPT ![w] =
                           [serving("submit_chunk", "chunk", filename, "listdir_pending")
                              EXCEPT !.content = text,
                                     !.metadata = <<[category |-> category,
                                                     language |-> chunk_language(filename)]>>]]
          /\ UNCHANGED response
    /\ UNCHANGED <<store, nextId, assigned, freed, hub>>

\* The steps of a chunk submission after the lineage check: the .json files of
\* the pending folder are counted, then those of the approved folder, the
\* pending folder is created, the chunk file chunk_<count + 1> is written.
chunk_step(w) ==
    LET t == threads[w]
        f == t.filename
    IN /\ t.op = "submit_chunk"
       /\ \/ /\ t.pc = "listdir_pending"
             /\ threads' = [threads EXCEPT
                              ![w].pc = "listdir_approved",
                              ![w].chunk_index = Cardinality(chunk_files(pendChunks, f))]
             /\ UNCHANGED <<pendChunks, assigned, freed, response>>
          \/ /\ t.pc = "listdir_approved"
             /\ t.chunk_index + Cardinality(chunk_files(apprChunks, f)) + 1 <= MaxChunks
             /\ threads' = [threads EXCEPT
                              ![w].pc = "makedirs",
                              ![w].chunk_index =
                                 t.chunk_index + Cardinality(chunk_files(apprChunks, f)) + 1]
             /\ UNCHANGED <<pendChunks, assigned, freed, response>>
          \/ /\ t.pc = "makedirs"
             /\ pendChunks' = makedirs(pendChunks, f)
             /\ threads' = [threads EXCEPT ![w].pc = "write"]
             /\ UNCHANGED <<assigned, freed, response>>
          \/ /\ t.pc = "write"
             /\ IF f \in DOMAIN pendChunks
                THEN /\ pendChunks' =
                          [pendChunks EXCEPT ![f] =
                             open_w(@, t.chunk_index,
                                    [new_chunk(f, t.content, t.metadata[1].category,
                                               t.chunk_index)
                                       EXCEPT !.language = t.metadata[1].language,
                                              !.chunk_id = generate_chunk_id(
                                                  t.metadata[1].language,
                                                  t.metadata[1].category, f, t.chunk_index)])]
                     /\ threads' = [threads EXCEPT ![w] =
                                      [answered(t, 200) EXCEPT !.chunk_index = t.chunk_index]]
                     /\ response' = Resp("chunking/submit", 200, t.chunk_index, {}, 0)
                     /\ assigned' = [assigned EXCEPT ![f] = @ \cup {t.chunk_index}]
                     /\ freed' = [freed EXCEPT ![f] = @ \ {t.chunk_index}]
                ELSE /\ threads' = [threads EXCEPT ![w] = answered(t, 500)]
                     /\ response' = Fail("chunking/submit", 500)
                     /\ UNCHANGED <<pendChunks, assigned, freed>>
       /\ UNCHANGED <<pendTxt, pendMeta, apprTxt, apprMeta, apprChunks, nextId, hub>>

\* approve_submission, chunk branch, up to os.path.exists(pending_chunk).
begin_approve_chunk(w, filename, chunk_index) ==
    /\ free(w)
    /\ \/ /\ chunk_index = NoIndex
          /\ threads' = [threads EXCEPT ![w] =
                           answered(serving("approve_chunk", "chunk", filename, "done"), 400)]
          /\ response' = Fail("admin/approve", 400)
       \/ /\ chunk_index # NoIndex
          /\ chunk_index \notin chunk_files(pendChunks, filename)
          /\ threads' = [threads EXCEPT ![w] =
                           answered(serving("approve_chunk", "chunk", filename, "done"), 404)]
          /\ response' = Fail("admin/approve", 404)
       \/ /\ chunk_index # NoIndex
          /\ chunk_index \in chunk_files(pendChunks, filename)
          /\ threads' = [threads EXCEPT ![w] =
                           [serving("approve_chunk", "chunk", filename, "makedirs")
                              EXCEPT !.chunk_index = chunk_index]]
          /\ UNCHANGED response
    /\ UNCHANGED <<store, nextId, assigned, freed, hub>>

\* The steps of the approval of one chunk after the check: the approved folder
\* is created, the pending chunk is read and stamped, it is written under the
\* approved root, the pending file is removed, the pending folder is removed
\* when it is there and empty (taken as one step).
approve_chunk_step(w) ==
    LET t == threads[w]
        f == t.filename
        i == t.chunk_index
        failed == /\ threads' = [threads EXCEPT ![w] = answered(t, 500)]
                  /\ response' = Fail("admin/approve", 500)
                  /\ UNCHANGED <<pendChunks, apprChunks>>
    IN /\ t.op = "approve_chunk"
       /\ \/ /\ t.pc = "makedirs"
             /\ apprChunks' = makedirs(apprChunks, f)
             /\ threads' = [threads EXCEPT ![w].pc = "read"]
             /\ UNCHANGED <<pendChunks, response>>
          \/ /\ t.pc = "read"
             /\ IF i \in chunk_files(pendChunks, f)
                THEN /\ threads' = [threads EXCEPT
                          ![w].pc = "write",
                          ![w].metadata = <<approved_chunk(pendChunks[f][i])>>]
                     /\ UNCHANGED <<pendChunks, apprChunks, response>>
                ELSE failed
          \/ /\ t.pc = "write"
             /\ apprChunks' = [apprChunks EXCEPT ![f] = open_w(@, i, t.metadata[1])]
             /\ threads' = [threads EXCEPT ![w].pc = "remove"]
             /\ UNCHANGED <<pendChunks, response>>
          \/ /\ t.pc = "remove"
             /\ IF i \in chunk_files(pendChunks, f)
                THEN /\ pendChunks' = remove_chunk(pendChunks, f, i)
                     /\ threads' = [threads EXCEPT ![w].pc = "rmdir"]
                     /\ UNCHANGED <<apprChunks, response>>
                ELSE failed
          \/ /\ t.pc = "rmdir"
             /\ pendChunks' = rmdir_if_empty(pendChunks, f)
             /\ threads' = [threads EXCEPT ![w] = answered(t, 200)]
             /\ response' = Ok("admin/approve")
             /\ UNCHANGED apprChunks
       /\ UNCHANGED <<pendTxt, pendMeta, apprTxt, apprMeta, nextId, assigned, freed, hub>>

\* approve_all, chunks branch, up to os.path.exists(pending_dir).
begin_approve_all_chunks(w, target_file) ==
    /\ free(w)
    /\ \/ /\ target_file = Missing
          /\ threads' = [threads EXCEPT ![w] =
                           answered(serving("approve_all", "chunks", target_file, "done"), 400)]
          /\ response' = Fail("admin/approve-all", 400)
       \/ /\ target_file # Missing
          /\ target_file \notin DOMAIN pendChunks
          /\ threads' = [threads EXCEPT ![w] =
                           answered(serving("approve_all", "chunks", target_file, "done"), 200)]
          /\ response' = Resp("admin/approve-all", 200, NoIndex, {}, 0)
       \/ /\ target_file # Missing
          /\ target_file \in DOMAIN pendChunks
          /\ threads' = [threads EXCEPT ![w] =
                           serving("approve_all", "chunks", target_file, "makedirs")]
          /\ UNCHANGED response
    /\ UNCHANGED <<store, nextId, assigned, freed, hub>>

\* The steps of a bulk approval of chunks: the approved folder is created, the
\* pending folder is listed, and for every file of the listing the chunk is
\* read and stamped, written under the approved root and removed from the
\* pending folder; at the end the pending folder is listed again and removed
\* when it is empty (taken as one step).
approve_all_chunks_step(w) ==
    LET t == threads[w]
        f == t.filename
        failed == /\ threads' = [threads EXCEPT ![w] = answered(t, 500)]
                  /\ response' = Fail("admin/approve-all", 500)
                  /\ UNCHANGED <<pendChunks, apprChunks>>
    IN /\ t.op = "approve_all"
       /\ \/ /\ t.pc = "makedirs"
             /\ apprChunks' = makedirs(apprChunks, f)
             /\ threads' = [threads EXCEPT ![w].pc = "listdir"]
             /\ UNCHANGED <<pendChunks, response>>
          \/ /\ t.pc = "listdir"
             /\ IF f \in DOMAIN pendChunks
                THEN /\ threads' = [threads EXCEPT
                          ![w].pc = IF DOMAIN pendChunks[f] = {} THEN "rmdir" ELSE "read",
                          ![w].todo = listdir(DOMAIN pendChunks[f]),
                          ![w].at = 1]
                     /\ UNCHANGED <<pendChunks, apprChunks, response>>
                ELSE failed
          \/ /\ t.pc = "read"
             /\ IF t.todo[t.at] \in chunk_files(pendChunks, f)
                THEN /\ threads' = [threads EXCEPT
                          ![w].pc = "write",
                          ![w].metadata = <<bulk_approved(pendChunks[f][t.todo[t.at]])>>]
                     /\ UNCHANGED <<pendChunks, apprChunks, response>>
                ELSE failed
          \/ /\ t.pc = "write"
             /\ apprChunks' = [apprChunks EXCEPT ![f] = open_w(@, t.todo[t.at], t.metadata[1])]
             /\ threads' = [threads EXCEPT ![w].pc = "remove"]
             /\ UNCHANGED <<pendChunks, response>>
          \/ /\ t.pc = "remove"
             /\ IF t.todo[t.at] \in chunk_files(pendChunks, f)
                THEN /\ pendChunks' = remove_chunk(pendChunks, f, t.todo[t.at])
                     /\ threads' = [threads EXCEPT
                          ![w].pc = IF t.at = Len(t.todo) THEN "rmdir" ELSE "read",
                          ![w].at = t.at + 1,
                          ![w].metadata = <<>>]
                     /\ UNCHANGED <<apprChunks, response>>
                ELSE failed
          \/ /\ t.pc = "rmdir"
             /\ IF f \in DOMAIN pendChunks
                THEN /\ pendChunks' = rmdir_if_empty(pendChunks, f)
                     /\ threads' = [threads EXCEPT ![w] = answered(t, 200)]
                     /\ response' = Resp("admin/approve-all", 200, NoIndex, {}, Len(t.todo))
                     /\ UNCHANGED apprChunks
                ELSE failed
       /\ UNCHANGED <<pendTxt, pendMeta, apprTxt, apprMeta, nextId, assigned, freed, hub>>

\* Mutant of stop: a worker that stops after the move of an approval puts the
\* content back under the pending root.
stop_rolls_back(w) ==
    LET t == threads[w]
    IN /\ in_flight(w)
       /\ threads' = [threads EXCEPT ![w] = stopped(threads[w])]
       /\ IF t.op = "approve" /\ t.pc = "write_metadata"
             /\ t.filename \in DOMAIN apprTxt[t.type]
          THEN /\ pendTxt' = [pendTxt EXCEPT ![t.type] =
                                Put(@, t.filename, apprTxt[t.type][t.filename])]
               /\ apprTxt' = [apprTxt EXCEPT ![t.type] = Remove(@, t.filename)]
               /\ UNCHANGED <<pendMeta, apprMeta, pendChunks, apprChunks>>
          ELSE UNCHANGED store
       /\ UNCHANGED <<nextId, assigned, freed, hub, response>>

\* The worker stops between two steps of its request (the process is killed,
\* the machine goes down): the request takes no further step, no handler and
\* no start-up code undoes the steps it took.
stop(w) ==
    /\ in_flight(w)
    /\ threads' = [threads EXCEPT ![w] = stopped(threads[w])]
    /\ UNCHANGED <<store, nextId, assigned, freed, hub, response>>

Init ==
    /\ pendTxt = [s \in Stages |-> <<>>]
    /\ pendMeta = [s \in Stages |-> <<>>]
    /\ apprTxt = [s \in Stages |-> <<>>]
    /\ apprMeta = [s \in Stages |-> <<>>]
    /\ pendChunks = <<>>
    /\ apprChunks = <<>>
    /\ nextId = 1
    /\ assigned = [f \in AllFiles |-> {}]
    /\ freed = [f \in AllFiles |-> {}]
    /\ hub = {}
    /\ threads = [w \in Workers |-> idle]
    /\ response = Fail(None, 0)

\* ---------------------------------------------------------------- specifications
\* The raw and cleaned stage stores under every operation on them.
NextStore ==
    \/ \E f \in Files, l \in Languages, s \in Sources, c \in Contents \cup {Missing} :
         submit_raw_data(f, l, s, c)
    \/ \E f \in Files, c \in Contents \cup {Missing} : submit_cleaned_data(f, c)
    \/ \E t \in Stages \cup {"bogus"}, f \in Files, c \in Contents \cup {Missing}, p \in Patches :
         update_pending_item(t, f, c, p)
    \/ \E t \in Stages \cup {"bogus"}, f \in Files : approve_submission(t, f, NoIndex)
    \/ \E t \in Stages \cup {"bogus"}, f \in Files : reject_submission(t, f, NoIndex)
    \/ \E t \in Stages \cup {"bogus"} : approve_all(t, Missing)

SpecStore == Init /\ [][NextStore]_vars

\* The admin endpoints over the raw and cleaned records of one file name, with
\* every type a request can name and every patch.
NextAdmin ==
    \/ \E f \in Files, l \in Languages, s \in Sources : submit_raw_data(f, l, s, "a")
    \/ \E f \in Files : submit_cleaned_data(f, "a")
    \/ \E t \in Stages \cup {"bogus"}, f \in Files : get_pending_item(t, f, NoIndex)
    \/ \E t \in Stages \cup {"bogus"}, f \in Files, c \in {"bb", Missing}, p \in StampPatches :
         update_pending_item(t, f, c, p)
    \/ \E t \in Stages \cup {"bogus"}, f \in Files : approve_submission(t, f, NoIndex)
    \/ \E t \in Stages \cup {"bogus"}, f \in Files : reject_submission(t, f, NoIndex)
    \/ \E t \in Stages \cup {"bogus"} : approve_all(t, Missing)

SpecAdmin == Init /\ [][NextAdmin]_vars

\* The whole pipeline down to the chunk store; the raw and cleaned records are
\* submitted with one content and are not edited.
NextChunks ==
    \/ \E f \in Files, l \in Languages, s \in Sources : submit_raw_data(f, l, s, "a")
    \/ \E f \in Files : submit_cleaned_data(f, "a")
    \/ \E f \in Files, t \in Texts \cup {Missing}, c \in Categories : submit_chunk(f, t, c)
    \/ \E f \in Files, b \in Batches \cup {NoBatch} : submit_batch(f, b)
    \/ \E f \in Files, i \in Indexes : delete_chunk(f, i)
    \/ \E t \in Types \ {"chunk"}, f \in Files : approve_submission(t, f, NoIndex)
    \/ \E f \in Files, i \in Indexes \cup {NoIndex} : approve_submission("chunk", f, i)
    \/ \E t \in Types \ {"chunk"}, f \in Files : reject_submission(t, f, NoIndex)
    \/ \E f \in Files, i \in Indexes \cup {NoIndex} : reject_submission("chunk", f, i)
    \/ \E t \in BulkTypes \ {"chunks"} : approve_all(t, Missing)
    \/ \E f \in Files \cup {Missing} : approve_all("chunks", f)

SpecChunks == Init /\ [][NextChunks]_vars

\* The pipeline over two file names: submissions of the three stages, approvals
\* and rejections.
NextFiles ==
    \/ \E f \in AllFiles, l \in Languages, s \in Sources : submit_raw_data(f, l, s, "a")
    \/ \E f \in AllFiles : submit_cleaned_data(f, "a")
    \/ \E f \in AllFiles, t \in Texts, c \in Categories : submit_chunk(f, t, c)
    \/ \E t \in Stages, f \in AllFiles : approve_submission(t, f, NoIndex)
    \/ \E f \in AllFiles, i \in Indexes : approve_submission("chunk", f, i)
    \/ \E t \in Stages, f \in AllFiles : reject_submission(t, f, NoIndex)
    \/ \E f \in AllFiles, i \in Indexes : reject_submission("chunk", f, i)

SpecFiles == Init /\ [][NextFiles]_vars

\* The outcomes of the uploads of a push: every combination for a push of one
\* kind; all succeeding or all failing for a push of all kinds.
Outcomes(type) ==
    IF type = "all" THEN {{}, uploadable(type)} ELSE SUBSET uploadable(type)

\* The pipeline of one file name with pushes to the external dataset store.
NextPush ==
    \/ \E f \in Files, l \in Languages, s \in Sources : submit_raw_data(f, l, s, "a")
    \/ \E f \in Files : submit_cleaned_data(f, "a")
    \/ \E f \in Files, t \in Texts, c \in Categories : submit_chunk(f, t, c)
    \/ \E t \in Stages, f \in Files : approve_submission(t, f, NoIndex)
    \/ \E f \in Files : approve_all("chunks", f)
    \/ \E f \in Files : reject_submission("raw", f, NoIndex)
    \/ \E t \in PushTypes \cup {Missing}, k \in Tokens \cup {Missing} :
         \E ok \in Outcomes(t) : push_to_huggingface(t, k, ok)

SpecPush == Init /\ [][NextPush]_vars

\* ---------------------------------------------------------------- chunks of two files
\* The serial numbers of the raw and the cleaned submission of a file name in
\* the store below.
raw_id(f) == IF f \in Files THEN 1 ELSE 2
cleaned_id(f) == Cardinality(AllFiles) + raw_id(f)

\* The store after the raw and the cleaned submission of both file names were
\* approved: the state the chunking of two source files starts from.
InitBulk ==
    LET raw(f) == approved_metadata(generate_metadata(raw_id(f), f, "ta", "gov_textbook", "a"))
        cleaned(f) == approved_metadata(cleaned_metadata(cleaned_id(f), f, raw(f), "a"))
    IN /\ pendTxt = [s \in Stages |-> <<>>]
       /\ pendMeta = [s \in Stages |-> <<>>]
       /\ apprTxt = [s \in Stages |-> [f \in AllFiles |-> "a"]]
       /\ apprMeta = [s \in Stages |->
                        [f \in AllFiles |-> IF s = "raw" THEN raw(f) ELSE cleaned(f)]]
       /\ pendChunks = <<>>
       /\ apprChunks = <<>>
       /\ nextId = 2 * Cardinality(AllFiles) + 1
       /\ assigned = [f \in AllFiles |-> {}]
       /\ freed = [f \in AllFiles |-> {}]
       /\ hub = {}
       /\ threads = [w \in Workers |-> idle]
       /\ response = Fail(None, 0)

\* Chunks of two source files submitted, approved one by one and approved in
\* bulk; chunks of the first are deleted too.
NextBulk ==
    \/ \E f \in AllFiles, t \in Texts, c \in Categories : submit_chunk(f, t, c)
    \/ \E f \in Files, i \in Indexes : delete_chunk(f, i)
    \/ \E f \in Files, i \in Indexes : approve_submission("chunk", f, i)
    \/ \E f \in AllFiles \cup {Missing} : approve_all("chunks", f)

SpecBulk == InitBulk /\ [][NextBulk]_vars

\* ---------------------------------------------------------------- chunk ids
\* The inputs of generate_chunk_id: file names with and without underscores,
\* shorter and longer than 10 characters, categories of 3 and of more characters.
IdFiles == {"g10_sci", "grade_10_science", "a_b"}
IdLanguages == {"ta", "en"}
IdCategories == {"education", "law"}

\* The store after a raw submission of a file in a language was approved and
\* its cleaned submission was approved too: the state chunking starts from.
InitChunkId ==
    \E f \in IdFiles, l \in IdLanguages :
      LET raw == approved_metadata(generate_metadata(1, f, l, "gov_textbook", "a"))
          cleaned == approved_metadata(cleaned_metadata(2, f, raw, "a"))
      IN /\ pendTxt = [s \in Stages |-> <<>>]
         /\ pendMeta = [s \in Stages |-> <<>>]
         /\ apprTxt = [s \in Stages |-> (f :> "a")]
         /\ apprMeta = [s \in Stages |-> IF s = "raw" THEN (f :> raw) ELSE (f :> cleaned)]
         /\ pendChunks = <<>>
         /\ apprChunks = <<>>
         /\ nextId = 3
         /\ assigned = [x \in IdFiles |-> {}]
         /\ freed = [x \in IdFiles |-> {}]
         /\ hub = {}
         /\ threads = [w \in Workers |-> idle]
         /\ response = Fail(None, 0)

\* Chunk submissions at different store states: chunks are submitted, deleted
\* and approved in any order.
NextChunkId ==
    \/ \E f \in IdFiles, t \in Texts \cup {Missing}, c \in IdCategories : submit_chunk(f, t, c)
    \/ \E f \in IdFiles, i \in Indexes : delete_chunk(f, i)
    \/ \E f \in IdFiles, i \in Indexes : approve_submission("chunk", f, i)

SpecChunkId == InitChunkId /\ [][NextChunkId]_vars

\* ---------------------------------------------------------------- second rounds
\* The uuid4 values of the raw submissions that were approved before the store
\* below: values drawn earlier, different from every value drawn later.
earlier_id(f) == raw_id(f) - Cardinality(AllFiles)

\* The store after the raw submissions of both file names were approved: the
\* state cleaning, and a second round of raw collection, start from.
InitRounds ==
    /\ pendTxt = [s \in Stages |-> <<>>]
    /\ pendMeta = [s \in Stages |-> <<>>]
    /\ apprTxt = [s \in Stages |-> IF s = "raw" THEN [f \in AllFiles |-> "a"] ELSE <<>>]
    /\ apprMeta = [s \in Stages |->
                     IF s = "raw"
                     THEN [f \in AllFiles |->
                             approved_metadata(
                               generate_metadata(earlier_id(f), f, "ta", "gov_textbook", "a"))]
                     ELSE <<>>]
    /\ pendChunks = <<>>
    /\ apprChunks = <<>>
    /\ nextId = 1
    /\ assigned = [f \in AllFiles |-> {}]
    /\ freed = [f \in AllFiles |-> {}]
    /\ hub = {}
    /\ threads = [w \in Workers |-> idle]
    /\ response = Fail(None, 0)

\* Cleaned submissions and raw submissions of file names that were approved
\* before, approved one by one and in bulk, or rejected.
NextRounds ==
    \/ \E f \in AllFiles, l \in Languages, s \in Sources, c \in Contents :
         submit_raw_data(f, l, s, c)
    \/ \E f \in AllFiles, c \in Contents : submit_cleaned_data(f, c)
    \/ \E t \in Stages, f \in AllFiles : approve_submission(t, f, NoIndex)
    \/ \E t \in Stages, f \in AllFiles : reject_submission(t, f, NoIndex)
    \/ \E t \in Stages : approve_all(t, Missing)

SpecRounds == InitRounds /\ [][NextRounds]_vars

\* ---------------------------------------------------------------- concurrent requests
\* Two workers serving submissions to the raw and the cleaned stage at the same
\* time, each step by step, and approvals of raw records.
NextSubmits ==
    \/ \E w \in Workers, t \in Stages, f \in Files, l \in Languages, s \in Sources,
          c \in Contents : begin_submit(w, t, f, l, s, c)
    \/ \E w \in Workers : submit_step(w)
    \/ \E w \in Workers, f \in Files : begin_approve(w, "raw", f)
    \/ \E w \in Workers : approve_step(w)

SpecSubmits == Init /\ [][NextSubmits]_vars

\* Two workers serving approvals and rejections of the raw and the cleaned
\* stage at the same time, each step by step, between submissions; a worker can
\* stop between two steps.
NextSteps ==
    \/ \E f \in Files, l \in Languages, s \in Sources : submit_raw_data(f, l, s, "a")
    \/ \E f \in Files : submit_cleaned_data(f, "a")
    \/ \E w \in Workers, t \in Stages, f \in Files : begin_approve(w, t, f)
    \/ \E w \in Workers : approve_step(w)
    \/ \E w \in Workers, t \in Stages, f \in Files : begin_reject(w, t, f)
    \/ \E w \in Workers : reject_step(w)
    \/ \E w \in Workers : stop(w)

SpecSteps == Init /\ [][NextSteps]_vars

\* Two workers serving chunk submissions for approved cleaned files at the same
\* time, each step by step, and approvals of single chunks.
NextChunkSteps ==
    \/ \E w \in Workers, f \in Files, t \in Texts, c \in Categories : begin_chunk(w, f, t, c)
    \/ \E w \in Workers : chunk_step(w)
    \/ \E w \in Workers, f \in Files, i \in Indexes \cup {NoIndex} :
         begin_approve_chunk(w, f, i)
    \/ \E w \in Workers : approve_chunk_step(w)

SpecChunkSteps == InitBulk /\ [][NextChunkSteps]_vars

\* No worker is inside a handler.
quiet == \A w \in Workers : ~in_flight(w)

\* Approvals of raw and cleaned records, of single chunks and of all chunks of
\* a source file, each run step by step with no other request at the same
\* time; the submissions between them run as a whole.
NextApprovals ==
    \/ \E f \in Files, l \in Languages, s \in Sources :
         quiet /\ submit_raw_data(f, l, s, "a")
    \/ \E f \in Files : quiet /\ submit_cleaned_data(f, "a")
    \/ \E f \in Files, t \in Texts, c \in Categories : quiet /\ submit_chunk(f, t, c)
    \/ \E w \in Workers, t \in Stages, f \in Files : quiet /\ begin_approve(w, t, f)
    \/ \E w \in Workers : approve_step(w)
    \/ \E w \in Workers, f \in Files, i \in Indexes : quiet /\ begin_approve_chunk(w, f, i)
    \/ \E w \in Workers : approve_chunk_step(w)
    \/ \E w \in Workers, f \in Files : quiet /\ begin_approve_all_chunks(w, f)
    \/ \E w \in Workers : approve_all_chunks_step(w)

SpecApprovals == Init /\ [][NextApprovals]_vars

\* ---------------------------------------------------------------- edited chunks
\* The chunk objects of an update request: the chunk as the editor shows it
\* with a new text, and a body whose chunk_index and source_file name another
\* chunk.
ChunkBodies ==
    {[text |-> "q", category |-> "education", chunk_index |-> 1, source_file |-> "g10_sci"],
     [text |-> "q", category |-> "education", chunk_index |-> 7, source_file |-> "g9_math"]}

\* Chunks of an approved cleaned file submitted, edited by the admin and
\* approved.
NextChunkEdit ==
    \/ \E f \in Files, t \in Texts, c \in Categories : submit_chunk(f, t, c)
    \/ \E f \in Files, i \in Indexes \cup {NoIndex}, b \in ChunkBodies :
         update_pending_chunk(f, i, <<b>>)
    \/ \E f \in Files, i \in Indexes : update_pending_chunk(f, i, <<>>)
    \/ \E f \in Files, i \in Indexes : approve_submission("chunk", f, i)
    \/ \E f \in Files, i \in Indexes : reject_submission("chunk", f, i)
    \/ \E f \in Files : approve_all("chunks", f)

SpecChunkEdit == InitBulk /\ [][NextChunkEdit]_vars

\* ---------------------------------------------------------------- syncs
\* The records a sync can hand over: the approved raw and cleaned files, of
\* which the API accepts all or none, and the approved chunks, of which it
\* accepts some.
SyncedFiles == {stage_item(stage, name) : <<stage, name>> \in
                   {<<s, f>> \in Stages \X AllFiles : f \in DOMAIN apprTxt[s]}}
SyncedChunks == {chunk_item(pos[1], apprChunks[pos[1]][pos[2]]) : pos \in
                   {<<f, i>> \in (DOMAIN apprChunks) \X Indexes : i \in DOMAIN apprChunks[f]}}
SyncOutcomes == {files \cup chunks : <<files, chunks>> \in
                   {{}, SyncedFiles} \X SUBSET SyncedChunks}

\* Chunks of an approved cleaned file submitted and approved, with syncs to
\* the external dataset store.
NextSync ==
    \/ \E f \in Files, t \in Texts, c \in Categories : submit_chunk(f, t, c)
    \/ \E f \in Files, i \in Indexes : approve_submission("chunk", f, i)
    \/ \E f \in Files : approve_all("chunks", f)
    \/ \E c \in BOOLEAN : \E ok \in SyncOutcomes : sync_all_approved(c, ok)

SpecSync == InitBulk /\ [][NextSync]_vars

\* ---------------------------------------------------------------- properties
\* A file name has a record under a root of a stage when its content file or
\* its metadata file is there.
HasPending(stage, f) == f \in DOMAIN pendTxt[stage] \cup DOMAIN pendMeta[stage]
HasApproved(stage, f) == f \in DOMAIN apprTxt[stage] \cup DOMAIN apprMeta[stage]

\* The file names a listing shows.
Listed(listing) == {m.filename : m \in listing}

\* C1: no file name of the raw or the cleaned stage has a record under the
\* pending root and a record under the approved root at the same time.
C1_OneRootPerFilename ==
    \A stage \in Stages : \A f \in Files : ~(HasPending(stage, f) /\ HasApproved(stage, f))

\* What a submission that finds a pending record of its file name must do, and
\* what one that finds none (and is not refused for another reason) must do.
SubmitOutcome(stage, f, content) ==
    IF HasPending(stage, f)
    THEN /\ response'.code = 409
         /\ pendTxt' = pendTxt
         /\ pendMeta' = pendMeta
    ELSE response'.code \notin {400, 404} =>
         /\ response'.code = 200
         /\ f \in DOMAIN pendTxt'[stage] /\ pendTxt'[stage][f] = content
         /\ f \in DOMAIN pendMeta'[stage] /\ pendMeta'[stage][f].status = "pending"
         /\ pendMeta'[stage][f].filename = f

\* C2: with the requests running one after another, a well-formed submission of
\* a file name that has a pending record is answered 409 and leaves the pending
\* content and metadata as they were; one of a file name without pending record,
\* unless it is refused as malformed or for its lineage, writes the content and
\* the metadata with status pending.
C2_SubmitConflict ==
    [][ /\ \A f \in Files, l \in Languages, src \in Sources, c \in Contents :
             submit_raw_data(f, l, src, c) => SubmitOutcome("raw", f, c)
        /\ \A f \in Files, c \in Contents :
             submit_cleaned_data(f, c) => SubmitOutcome("cleaned", f, c) ]_vars

\* C2 witness: a second cleaned submission was refused with 409 while the first
\* is still pending.
C2_Witness ==
    /\ response.ep = "cleaning/submit" /\ response.code = 409
    /\ \E f \in Files : HasPending("cleaned", f)

\* C3: a completed approval of a pending raw or cleaned record leaves the file
\* name out of the pending listing and in the approved listing, with status
\* approved and approved_at set.
C3_ApproveMovesRecord ==
    [][ \A stage \in Stages, f \in Files :
          (approve_submission(stage, f, NoIndex) /\ HasPending(stage, f)) =>
             /\ response'.code = 200
             /\ f \notin Listed(list_pending(stage))'
             /\ \E m \in list_approved(stage)' :
                  /\ m.filename = f
                  /\ m.status = "approved"
                  /\ "approved_at" \in DOMAIN m ]_vars

\* C3 witness: an approval succeeded and the approved listing shows a record
\* that had been edited while pending.
C3_Witness ==
    /\ response.ep = "admin/approve" /\ response.code = 200
    /\ \E stage \in Stages : \E m \in list_approved(stage) :
         "updated_at" \in DOMAIN m /\ "approved_by" \in DOMAIN m

\* C4: a completed rejection of a pending raw or cleaned record leaves the file
\* name out of the pending listing and out of the approved listing.
C4_RejectRemovesRecord ==
    [][ \A stage \in Stages, f \in Files :
          (reject_submission(stage, f, NoIndex) /\ HasPending(stage, f)) =>
             /\ response'.code = 200
             /\ f \notin Listed(list_pending(stage))'
             /\ f \notin Listed(list_approved(stage))' ]_vars

\* C5: the status field follows the location: pending under the pending root,
\* approved under the approved root.
C5_StatusTracksLocation ==
    \A stage \in Stages :
      /\ \A f \in DOMAIN pendMeta[stage] : pendMeta[stage][f].status = "pending"
      /\ \A f \in DOMAIN apprMeta[stage] : apprMeta[stage][f].status = "approved"

\* Every cleaned record, pending or approved, has an approved raw record of its
\* file name.
CleanedHasRaw ==
    \A f \in Files :
      (HasPending("cleaned", f) \/ HasApproved("cleaned", f)) =>
         (f \in DOMAIN apprTxt["raw"] /\ f \in DOMAIN apprMeta["raw"])

\* C6: every cleaned record has an approved raw record of the same file name,
\* and a cleaned submission for a file name without approved raw record is
\* answered 404 and writes nothing.
C6_CleanedLineage ==
    [][ /\ CleanedHasRaw'
        /\ \A f \in Files, c \in Contents :
             (submit_cleaned_data(f, c) /\ ~HasApproved("raw", f)) =>
                (response'.code = 404 /\ UNCHANGED store) ]_vars

\* C6 witness: a cleaned record is stored, derived from the approved raw record.
C6_Witness ==
    \E f \in Files :
      /\ HasPending("cleaned", f)
      /\ pendMeta["cleaned"][f].original_raw_id = apprMeta["raw"][f].id

\* The chunk files of the two roots, as <<root, folder, file index>>, and the
\* record a chunk file holds.
StoredChunks ==
    {<<"pending", f, i>> : <<f, i>> \in
        {<<f, i>> \in (DOMAIN pendChunks) \X Indexes : i \in DOMAIN pendChunks[f]}}
    \cup
    {<<"approved", f, i>> : <<f, i>> \in
        {<<f, i>> \in (DOMAIN apprChunks) \X Indexes : i \in DOMAIN apprChunks[f]}}
ChunkAt(pos) ==
    IF pos[1] = "pending" THEN pendChunks[pos[2]][pos[3]] ELSE apprChunks[pos[2]][pos[3]]

\* Every stored chunk names an approved cleaned record as its source file.
ChunkHasCleaned ==
    \A pos \in StoredChunks :
       LET f == ChunkAt(pos).source_file
       IN f \in DOMAIN apprTxt["cleaned"] /\ f \in DOMAIN apprMeta["cleaned"]

C8_IndexUnique ==
    \A p \in StoredChunks, q \in StoredChunks :
       (p # q /\ ChunkAt(p).source_file = ChunkAt(q).source_file) =>
          ChunkAt(p).chunk_index # ChunkAt(q).chunk_index

\* The indexes a submission may be given: those never given before for the
\* source file, and those freed by deleting the highest pending chunk.
Fresh(f) == {i \in Indexes : i \notin assigned[f] \/ i \in freed[f]}

\* C9: an index given to a submission for a source file is not given again to
\* a later submission for it, unless the deletion of the highest-index pending
\* chunk freed it.
C9_IndexNotReused ==
    [][ /\ \A f \in Files, t \in Texts, c \in Categories :
             (submit_chunk(f, t, c) /\ response'.code = 200) =>
                response'.chunk_index \in Fresh(f)
        /\ \A f \in Files, b \in Batches :
             (submit_batch(f, b) /\ response'.code = 200) =>
                response'.chunks \subseteq Fresh(f) ]_vars

\* C10: a single chunk submission is given the number of pending chunks plus
\* the number of approved chunks stored for its source file, plus one, and
\* stores the chunk under that index; the first chunk of a file gets index 1.
C10_IndexIsCountPlusOne ==
    [][ \A f \in Files, t \in Texts, c \in Categories :
          (submit_chunk(f, t, c) /\ response'.code = 200) =>
             LET pending == IF f \in DOMAIN pendChunks THEN DOMAIN pendChunks[f] ELSE {}
                 approved == IF f \in DOMAIN apprChunks THEN DOMAIN apprChunks[f] ELSE {}
                 n == Cardinality(pending) + Cardinality(approved) + 1
             IN /\ response'.chunk_index = n
                /\ n \in DOMAIN pendChunks'[f]
                /\ pendChunks'[f][n].chunk_index = n
                /\ (pending \cup approved = {}) => n = 1 ]_vars

\* C10 witness: with one chunk approved and none pending, a submission was
\* given index 2.
C10_Witness ==
    /\ response.ep = "chunking/submit" /\ response.code = 200
    /\ response.chunk_index = 2
    /\ \E f \in Files :
         /\ Cardinality(chunk_files(apprChunks, f)) = 1
         /\ chunk_files(pendChunks, f) = {2}

\* The chunk id format, written out for the inputs of the chunk id
\* specification: the first three characters of the category, the file name
\* without underscores cut to 10 characters, the index in two digits.
ShortCategory == [education |-> "edu", law |-> "law"]
ShortFile == [g10_sci |-> "g10sci", grade_10_science |-> "grade10sci", a_b |-> "ab"]
IndexDigits == <<"01", "02", "03", "04", "05", "06", "07", "08", "09", "10">>
ExpectedId(language, category, source_file, chunk_index) ==
    language \o "_" \o ShortCategory[category] \o "_" \o ShortFile[source_file]
      \o "_" \o IndexDigits[chunk_index]

C12_ApproveMissing ==
    [][ /\ \A stage \in Stages, f \in Files :
             (approve_submission(stage, f, NoIndex) /\ ~HasPending(stage, f)) =>
                (response'.code = 404 /\ UNCHANGED store)
        /\ \A f \in Files, i \in Indexes :
             (approve_submission("chunk", f, i) /\ <<"pending", f, i>> \notin StoredChunks) =>
                (response'.code = 404 /\ UNCHANGED store) ]_vars

\* C12 witness: an approval was answered 404 in a store where the chunks and
\* the cleaned record of the file are approved and none of them is pending.
C12_Witness ==
    /\ response.ep = "admin/approve" /\ response.code = 404
    /\ \E f \in Files :
         /\ chunk_files(apprChunks, f) # {}
         /\ chunk_files(pendChunks, f) = {}
         /\ HasApproved("cleaned", f) /\ ~HasPending("cleaned", f)

\* The pending record of a file name in a stage: its content and its metadata,
\* each absent or present with a value.
PendingRecord(stage, f) ==
    [content |-> IF f \in DOMAIN pendTxt[stage] THEN <<pendTxt[stage][f]>> ELSE <<>>,
     metadata |-> IF f \in DOMAIN pendMeta[stage] THEN <<pendMeta[stage][f]>> ELSE <<>>]

\* The pending chunk files other than the one at index i of folder f.
OtherPendingChunks(f, i) ==
    {pos \in StoredChunks : pos[1] = "pending" /\ pos # <<"pending", f, i>>}

\* C13: a rejection of type raw or cleaned, and one of a chunk index, is
\* answered as a success whether the pending record exists or not; afterwards
\* the file name has neither pending content nor pending metadata in that
\* stage (the chunk file is gone), the approved root is as it was, and so is
\* every other pending record.
C13_RejectUnconditional ==
    [][ /\ \A stage \in Stages, f \in AllFiles :
             reject_submission(stage, f, NoIndex) =>
                /\ response'.code = 200
                /\ f \notin DOMAIN pendTxt'[stage] /\ f \notin DOMAIN pendMeta'[stage]
                /\ UNCHANGED <<apprTxt, apprMeta, apprChunks, pendChunks>>
                /\ \A s2 \in Stages, g \in AllFiles :
                     <<s2, g>> # <<stage, f>> => PendingRecord(s2, g)' = PendingRecord(s2, g)
        /\ \A f \in AllFiles, i \in Indexes :
             reject_submission("chunk", f, i) =>
                /\ response'.code = 200
                /\ <<"pending", f, i>> \notin StoredChunks'
                /\ UNCHANGED <<apprTxt, apprMeta, apprChunks, pendTxt, pendMeta>>
                /\ OtherPendingChunks(f, i)' = OtherPendingChunks(f, i)
                /\ \A pos \in OtherPendingChunks(f, i) : ChunkAt(pos)' = ChunkAt(pos) ]_vars

\* C13 witness: after a rejection one file name has an approved raw record and
\* no pending one, while another file name is still pending.
C13_Witness ==
    /\ response.ep = "admin/reject" /\ response.code = 200
    /\ \E f \in AllFiles, g \in AllFiles :
         /\ f # g
         /\ HasApproved("raw", f) /\ ~HasPending("raw", f)
         /\ HasPending("raw", g)

\* The keys of the update stamp.
StampKeys == {"updated_at", "updated_by"}

\* What an update of a pending record does apart from the patch: the content
\* is overwritten only when given, the metadata keys outside the patch and the
\* stamp keep their values, the record stays pending and the approved root is
\* as it was; an update without pending record is answered 404 and changes
\* nothing.
UpdateFrame(stage, f, c, p) ==
    IF HasPending(stage, f)
    THEN /\ response'.code = 200
         /\ f \in DOMAIN pendTxt'[stage] /\ f \in DOMAIN pendMeta'[stage]
         /\ pendTxt'[stage][f] = IF c = Missing THEN pendTxt[stage][f] ELSE c
         /\ \A k \in (DOMAIN pendMeta[stage][f]) \ (DOMAIN p \cup StampKeys) :
              /\ k \in DOMAIN pendMeta'[stage][f]
              /\ pendMeta'[stage][f][k] = pendMeta[stage][f][k]
         /\ UNCHANGED <<apprTxt, apprMeta, apprChunks>>
    ELSE response'.code = 404 /\ UNCHANGED store

\* C14 as stated: an update sets every key of the metadata patch to the patch
\* value, overwrites the content only when given, keeps the other metadata
\* keys, keeps the record pending and the approved root unchanged; without
\* pending record it is answered 404 and changes nothing.
C14_UpdateMergesPatch ==
    [][ \A stage \in Stages, f \in Files, c \in {"bb", Missing}, p \in StampPatches :
          update_pending_item(stage, f, c, p) =>
             /\ UpdateFrame(stage, f, c, p)
             /\ HasPending(stage, f) =>
                  \A k \in DOMAIN p : pendMeta'[stage][f][k] = p[k] ]_vars

\* C14 amended: an update sets every key of the metadata patch other than
\* updated_at and updated_by to the patch value, and these two carry the
\* update stamp whatever the patch says; the rest as stated.
C14_UpdateMergesPatchThenStamps ==
    [][ \A stage \in Stages, f \in Files, c \in {"bb", Missing}, p \in StampPatches :
          update_pending_item(stage, f, c, p) =>
             /\ UpdateFrame(stage, f, c, p)
             /\ HasPending(stage, f) =>
                  /\ \A k \in (DOMAIN p) \ StampKeys : pendMeta'[stage][f][k] = p[k]
                  /\ pendMeta'[stage][f].updated_at = Now
                  /\ pendMeta'[stage][f].updated_by = "admin" ]_vars

\* C14 witness: an update gave a pending record a new content and a patched
\* status while an approved record of the same file name exists.
C14_Witness ==
    /\ response.ep = "admin/update" /\ response.code = 200
    /\ \E f \in Files :
         /\ HasPending("raw", f) /\ HasApproved("raw", f)
         /\ pendTxt["raw"][f] = "bb" /\ pendMeta["raw"][f].content_length = 1
         /\ pendMeta["raw"][f].status = "approved"
         /\ pendMeta["raw"][f].updated_by = "admin"

\* The chunk files of a source folder under the two roots, absent folders
\* told from empty ones.
ChunkFolders(f) ==
    [pending |-> IF f \in DOMAIN pendChunks THEN <<pendChunks[f]>> ELSE <<>>,
     approved |-> IF f \in DOMAIN apprChunks THEN <<apprChunks[f]>> ELSE <<>>]

\* C15: a bulk approval of the chunks of a source file puts every chunk that
\* was pending for it under the approved root with status approved, answers
\* with an approved_count equal to the number of chunks that were pending,
\* leaves no pending folder of the source file, and leaves the chunk folders of
\* the other source files as they were.
C15_BulkApproveChunks ==
    [][ \A f \in AllFiles :
          approve_all("chunks", f) =>
             LET pending == chunk_files(pendChunks, f)
             IN /\ response'.code = 200
                /\ response'.approved_count = Cardinality(pending)
                /\ \A i \in pending :
                     /\ <<"approved", f, i>> \in StoredChunks'
                     /\ apprChunks'[f][i].status = "approved"
                     /\ apprChunks'[f][i].chunk_id = pendChunks[f][i].chunk_id
                     /\ apprChunks'[f][i].text = pendChunks[f][i].text
                /\ f \notin DOMAIN pendChunks'
                /\ \A g \in AllFiles \ {f} : ChunkFolders(g)' = ChunkFolders(g) ]_vars

\* C15 witness: a bulk approval moved two chunks of one source file while a
\* chunk of the other source file is still pending.
C15_Witness ==
    /\ response.ep = "admin/approve-all" /\ response.approved_count = 2
    /\ \E f \in AllFiles, g \in AllFiles :
         /\ f # g
         /\ f \notin DOMAIN pendChunks /\ Cardinality(chunk_files(apprChunks, f)) = 2
         /\ chunk_files(pendChunks, g) # {}

\* The (source_file, chunk_index) pairs of the chunks under the approved root.
ApprovedPairs ==
    {<<ChunkAt(p).source_file, ChunkAt(p).chunk_index>> :
        p \in {q \in StoredChunks : q[1] = "approved"}}

\* C16: no step takes a (source_file, chunk_index) pair away from the approved
\* root, and a delete request for an index without pending chunk file, also
\* one that is approved, is answered 404 and changes nothing.
C16_ApprovedChunksStay ==
    [][ /\ ApprovedPairs \subseteq ApprovedPairs'
        /\ \A f \in Files, i \in Indexes :
             (delete_chunk(f, i) /\ <<"pending", f, i>> \notin StoredChunks) =>
                (response'.code = 404 /\ UNCHANGED store) ]_vars

\* C16 witness: a delete request was answered 404 while every index is held
\* by an approved chunk and none by a pending one.
C16_Witness ==
    /\ response.ep = "chunking/chunk" /\ response.code = 404
    /\ \E f \in Files :
         /\ chunk_files(apprChunks, f) = Indexes
         /\ chunk_files(pendChunks, f) = {}
         /\ ApprovedPairs = {f} \X Indexes

\* The records stored under the approved root of a kind, and under its pending
\* root: the metadata of the raw and cleaned files, the chunks.
ApprovedRecords(kind) ==
    IF kind \in Stages
    THEN {apprMeta[kind][f] : f \in DOMAIN apprMeta[kind]}
    ELSE {ChunkAt(p) : p \in {q \in StoredChunks : q[1] = "approved"}}
PendingRecords(kind) ==
    IF kind \in Stages
    THEN {pendMeta[kind][f] : f \in DOMAIN pendMeta[kind]}
    ELSE {ChunkAt(p) : p \in {q \in StoredChunks : q[1] = "pending"}}

\* A record handed to the external store is stored under the approved root of
\* its kind, with the content handed along, and is not a pending record.
HandedIsApproved(item) ==
    /\ item.record \in ApprovedRecords(item.kind)
    /\ item.record \notin PendingRecords(item.kind)
    /\ item.kind \in Stages =>
         /\ item.path \in DOMAIN apprTxt[item.kind]
         /\ apprTxt[item.kind][item.path] = item.content
         /\ apprMeta[item.kind][item.path] = item.record

\* The upload calls of the push that was handled last.
Calls == {response.handed[i] : i \in 1..Len(response.handed)}

\* C17: every record a push hands to the external dataset store is, at the
\* moment of the push, stored under the approved root of its stage; no pending
\* record is handed over.  (While the answer of a push is the last answer, the
\* store is the one the push read.)
C17_OnlyApprovedPublished ==
    response.ep = "admin/push-to-hf" =>
       \A call \in Calls : HandedIsApproved(call.item)

\* C17 witness: a push handed over the approved raw record while a later
\* submission of the same file name is pending.
C17_Witness ==
    /\ response.ep = "admin/push-to-hf" /\ response.code = 200
    /\ \E call \in Calls : call.item.kind = "raw" /\ call.ok
    /\ \E f \in Files : HasPending("raw", f) /\ HasApproved("raw", f)

\* The kinds whose loops the push handled last ran, by its type.
Pushed == {kind \in Kinds : response.type \in {kind, "all"}}

\* C18: in a push that runs the loop of a kind, every approved record of the
\* kind is handed over exactly once whatever the uploads of the others do,
\* and the uploaded and failed counts of the kind add up to the number of its
\* approved records, the uploaded ones being those whose upload succeeded.
C18_PushIsBestEffort ==
    (response.ep = "admin/push-to-hf" /\ response.code = 200) =>
       \A kind \in Pushed :
          LET records == ApprovedRecords(kind)
              calls == {i \in 1..Len(response.handed) : response.handed[i].item.kind = kind}
              result == response.results[kind]
          IN /\ \A r \in records :
                  Cardinality({i \in calls : response.handed[i].item.record = r}) = 1
             /\ Cardinality(calls) = Cardinality(records)
             /\ result.uploaded + result.failed = Cardinality(records)
             /\ result.uploaded = Cardinality({i \in calls : response.handed[i].ok})

\* C18 witness: a push of the chunks failed on one chunk and uploaded the
\* other.
C18_Witness ==
    /\ response.ep = "admin/push-to-hf" /\ response.code = 200
    /\ response.type = "chunked"
    /\ response.results["chunked"].uploaded = 1
    /\ response.results["chunked"].failed = 1
    /\ Len(response.handed) = 2

\* C19: a push hands over no record that an earlier push uploaded
\* successfully.
C19_PublishedNotUploadedAgain ==
    [][ response'.ep = "admin/push-to-hf" =>
          \A i \in 1..Len(response'.handed) : response'.handed[i].item \notin hub ]_vars

\* The answer to a request whose type is none of the accepted values: a
\* validation failure, with every stored record as it was.
Refused == response'.code = 400 /\ UNCHANGED store

\* C20: item fetch, update, approve, reject and approve-all, called with a
\* type outside the accepted values, answer 400 and change no stored record.
C20_InvalidTypeRefused ==
    [][ \A t \in Types \ (Stages \cup {"chunk"}) : \A f \in Files :
          /\ get_pending_item(t, f, NoIndex) => Refused
          /\ \A c \in {"bb", Missing}, p \in StampPatches :
               update_pending_item(t, f, c, p) => Refused
          /\ approve_submission(t, f, NoIndex) => Refused
          /\ reject_submission(t, f, NoIndex) => Refused
          /\ (t \in BulkTypes \ (Stages \cup {"chunks"}) /\ approve_all(t, Missing)) => Refused ]_vars

\* C21: approve-all of the raw or the cleaned stage, run with no other request,
\* leaves the pending listing of the stage empty, has every record that was
\* pending in the approved listing with status approved, and reports as
\* approved_count the number of records that were pending.
C21_ApproveAllStage ==
    [][ \A stage \in Stages :
          approve_all(stage, Missing) =>
             /\ response'.code = 200
             /\ list_pending(stage)' = {}
             /\ DOMAIN pendTxt'[stage] = {}
             /\ \A m \in list_pending(stage) :
                  \E a \in list_approved(stage)' :
                     /\ a.id = m.id /\ a.filename = m.filename
                     /\ a.status = "approved"
                     /\ apprTxt'[stage][m.filename] = pendTxt[stage][m.filename]
             /\ response'.approved_count = Cardinality(list_pending(stage)) ]_vars

\* C21 witness: an approve-all approved two records at once, and the approved
\* listing of a stage shows two records with the bulk stamp (approved_at
\* without approved_by).
C21_Witness ==
    /\ response.ep = "admin/approve-all" /\ response.approved_count = 2
    /\ \E stage \in Stages :
         /\ list_pending(stage) = {}
         /\ Cardinality({m \in list_approved(stage) : "approved_by" \notin DOMAIN m}) = 2

\* C26: the chunks a submit-batch creates carry the consecutive indexes
\* existing_count + 1, existing_count + 2, ... without a gap, also when entries
\* of the batch are skipped.
C26_BatchIndexesConsecutive ==
    [][ \A f \in Files, b \in Batches :
          (submit_batch(f, b) /\ response'.code = 200) =>
             LET count == Cardinality(chunk_files(pendChunks, f))
                            + Cardinality(chunk_files(apprChunks, f))
                 created == response'.chunks
             IN created = (count + 1)..(count + Cardinality(created)) ]_vars

\* C28: with the requests running one after another, under each root of the
\* raw and the cleaned stage a content file exists exactly when the metadata
\* file of its name exists, so the listing (read from the metadata files) shows
\* as many records as the stats count (taken from the content files).
C28_ContentMetadataPaired ==
    \A stage \in Stages :
       /\ DOMAIN pendTxt[stage] = DOMAIN pendMeta[stage]
       /\ DOMAIN apprTxt[stage] = DOMAIN apprMeta[stage]
       /\ Cardinality(list_pending(stage)) = get_stats[stage].pending
       /\ Cardinality(list_approved(stage)) = get_stats[stage].approved

\* C28 witness: after a rejection the raw stage has no pending record left and
\* one approved record, while a cleaned record is pending.
C28_Witness ==
    /\ response.ep = "admin/reject" /\ response.code = 200
    /\ get_stats["raw"] = [pending |-> 0, approved |-> 1]
    /\ get_stats["cleaned"].pending = 1

\* C29: the content_length of the metadata of every raw and cleaned record is
\* the length of the stored content of the record.
C29_ContentLengthIsLength ==
    \A stage \in Stages :
       /\ \A f \in DOMAIN pendTxt[stage] \cap DOMAIN pendMeta[stage] :
            pendMeta[stage][f].content_length = Len(pendTxt[stage][f])
       /\ \A f \in DOMAIN apprTxt[stage] \cap DOMAIN apprMeta[stage] :
            apprMeta[stage][f].content_length = Len(apprTxt[stage][f])

\* C30: the original_raw_id of every cleaned record, pending or approved, is
\* the id of the approved raw record of the same file name.
C30_RawIdIsCurrent ==
    \A f \in AllFiles :
       f \in DOMAIN apprMeta["raw"] =>
          /\ f \in DOMAIN pendMeta["cleaned"] =>
                pendMeta["cleaned"][f].original_raw_id = apprMeta["raw"][f].id
          /\ f \in DOMAIN apprMeta["cleaned"] =>
                apprMeta["cleaned"][f].original_raw_id = apprMeta["raw"][f].id

\* A record left half-way through an approval: the content file is under the
\* approved root, the metadata file only under the pending root.
Orphaned(stage, f) ==
    /\ f \in DOMAIN apprTxt[stage] /\ f \notin DOMAIN pendTxt[stage]
    /\ f \in DOMAIN pendMeta[stage] /\ f \notin DOMAIN apprMeta[stage]

\* C22: an approval of a raw or cleaned record is not atomic across its two
\* files.  When it stops after the move, the content file is under the approved
\* root and the metadata file only under the pending root (the witness); from
\* such a state no step of any request takes the content back from the
\* approved root or changes it, only the approval that moved the content, if it
\* still runs, writes the approved metadata, and a stopped request takes no
\* further step.
C22_ApproveNotAtomic ==
    [][ /\ \A stage \in Stages, f \in Files :
             Orphaned(stage, f) =>
                /\ f \in DOMAIN apprTxt'[stage]
                /\ apprTxt'[stage][f] = apprTxt[stage][f]
                /\ f \in DOMAIN apprMeta'[stage] =>
                      \E w \in Workers :
                         /\ threads[w] = [serving("approve", stage, f, "write_metadata")
                                            EXCEPT !.metadata = threads[w].metadata]
                         /\ threads'[w].pc = "remove_metadata"
        /\ \A w \in Workers : threads[w].pc = "stopped" => threads'[w] = threads[w] ]_vars

\* C22 witness: the approving worker stopped after the move, no request is
\* running, and the record is left with its content approved and its metadata
\* pending.
C22_Witness ==
    \E w \in Workers :
       /\ threads[w].op = "approve" /\ threads[w].pc = "stopped"
       /\ Orphaned(threads[w].type, threads[w].filename)
       /\ \A v \in Workers : ~in_flight(v)

StepNeeds(t) ==
    IF t.pc \in {"move", "remove_content"} THEN pendTxt[t.type] ELSE pendMeta[t.type]

\* C24: an approval and a rejection of the same pending raw or cleaned record
\* race.  A step of either that opens, moves or removes a file which the other
\* request took away in the meantime ends its request with 500 and changes no
\* file; such an answer comes from no serial order of the two (run one after
\* the other, an approval answers 200 or 404 and a rejection 200).
C24_ApproveRejectRace ==
    [][ \A w \in Workers :
          LET t == threads[w]
          IN ( /\ in_flight(w) /\ threads'[w] # t /\ threads'[w].pc # "stopped"
               /\ t.op \in {"approve", "reject"}
               /\ t.pc \in {"read_metadata", "move", "remove_content", "remove_metadata"}
               /\ t.filename \notin DOMAIN StepNeeds(t) ) =>
                  /\ threads'[w] = answered(t, 500)
                  /\ response'.code = 500
                  /\ UNCHANGED store ]_vars

\* C24 witness: the rejection answered 200, the approval of the same record
\* answered 500, and the record is complete under the approved root with
\* nothing left under the pending root.
C24_Witness ==
    \E w \in Workers, v \in Workers, stage \in Stages, f \in Files :
       /\ threads[w] = answered(serving("approve", stage, f, "done"), 500)
       /\ threads[v] = answered(serving("reject", stage, f, "done"), 200)
       /\ f \in DOMAIN apprTxt[stage] /\ f \in DOMAIN apprMeta[stage]
       /\ f \notin DOMAIN pendTxt[stage] /\ f \notin DOMAIN pendMeta[stage]

\* C25: two chunk submissions for one source file that both answered with
\* success were given different chunk_index values, and the chunk files of both
\* are stored, also when the two ran at the same time.
C25_ConcurrentIndexesDistinct ==
    \A w \in Workers, v \in Workers :
       ( /\ w # v
         /\ threads[w].op = "submit_chunk" /\ threads[w].pc = "done" /\ threads[w].code = 200
         /\ threads[v].op = "submit_chunk" /\ threads[v].pc = "done" /\ threads[v].code = 200
         /\ threads[w].filename = threads[v].filename ) =>
            /\ threads[w].chunk_index # threads[v].chunk_index
            /\ {threads[w].chunk_index, threads[v].chunk_index} \subseteq
                 chunk_files(pendChunks, threads[w].filename)
                   \cup chunk_files(apprChunks, threads[w].filename)

\* The chunk files an approval in flight is about, wherever they are stored:
\* the chunk of a single approval, the listing of a bulk approval.
ChunksInApproval(t) ==
    IF t.op = "approve_chunk" THEN {t.chunk_index}
    ELSE IF t.op = "approve_all" THEN {t.todo[k] : k \in 1..Len(t.todo)}
    ELSE {}
StoredIndexes(f) == chunk_files(pendChunks, f) \cup chunk_files(apprChunks, f)

\* What holds between any two steps of an approval about the metadata and the
\* chunk files: the metadata of the record is under a root, every chunk the
\* approval is about is under a root.
ApprovalKeepsRecord(t) ==
    /\ t.op = "approve" =>
          t.filename \in DOMAIN pendMeta[t.type] \cup DOMAIN apprMeta[t.type]
    /\ ChunksInApproval(t) \subseteq StoredIndexes(t.filename)

C31_ApprovedRecordFrozen ==
    [][ \A stage \in Stages :
          /\ \A f \in DOMAIN apprTxt[stage] :
               f \in DOMAIN apprTxt'[stage] /\ apprTxt'[stage][f] = apprTxt[stage][f]
          /\ \A f \in DOMAIN apprMeta[stage] :
               f \in DOMAIN apprMeta'[stage] /\ apprMeta'[stage][f] = apprMeta[stage][f] ]_vars

\* C32: a chunk that is under the approved root keeps its stored record
\* through every later operation; no approval writes over it.
C32_ApprovedChunkFrozen ==
    [][ \A f \in DOMAIN apprChunks :
          \A i \in DOMAIN apprChunks[f] :
             /\ f \in DOMAIN apprChunks' /\ i \in DOMAIN apprChunks'[f]
             /\ apprChunks'[f][i].text = apprChunks[f][i].text
             /\ apprChunks'[f][i].category = apprChunks[f][i].category
             /\ apprChunks'[f][i].chunk_id = apprChunks[f][i].chunk_id ]_vars

\* The approval keys of a record, with the value of each or None without it.
ApprovalKeys(record) ==
    [k \in {"status", "approved_at", "approved_by"} |->
       IF k \in DOMAIN record THEN record[k] ELSE None]

\* C34: approve-all of a stage leaves every record it approves where, and with
\* the approval keys (status, approved_at, approved_by) with which, the
\* approval of that record alone leaves it.
C34_BulkEqualsSingle ==
    [][ /\ \A stage \in Stages :
             approve_all(stage, Missing) =>
                \A f \in DOMAIN pendTxt[stage] \cap DOMAIN pendMeta[stage] :
                   /\ f \in DOMAIN apprMeta'[stage] /\ f \notin DOMAIN pendMeta'[stage]
                   /\ ApprovalKeys(apprMeta'[stage][f])
                        = ApprovalKeys(approved_metadata(pendMeta[stage][f]))
        /\ \A f \in Files :
             (approve_all("chunks", f) /\ f \in DOMAIN pendChunks) =>
                \A i \in DOMAIN pendChunks[f] :
                   /\ i \in chunk_files(apprChunks', f) /\ i \notin chunk_files(pendChunks', f)
                   /\ ApprovalKeys(apprChunks'[f][i])
                        = ApprovalKeys(approved_chunk(pendChunks[f][i])) ]_vars

\* C33: the chunk_index and the source_file stored inside every chunk record,
\* pending or approved, are the index and the folder the chunk file is stored
\* under.
C33_ChunkFieldsMatchLocation ==
    \A pos \in StoredChunks :
       /\ ChunkAt(pos).source_file = pos[2]
       /\ ChunkAt(pos).chunk_index = pos[3]

\* C35: in a sync of a configured service the failure of one chunk upload
\* does not abort the batch: every approved chunk is handed to the external
\* API, and the chunk results count the accepted chunks as successes and the
\* others as failures, one per chunk.
C35_ChunkFailureDoesNotAbort ==
    [][ \A ok \in SyncOutcomes :
          sync_all_approved(TRUE, ok) =>
             /\ \A item \in SyncedChunks :
                  \E k \in 1..Len(response'.handed) : response'.handed[k].item = item
             /\ response'.results["chunked"].success = Cardinality(SyncedChunks \cap ok)
             /\ response'.results["chunked"].failed = Cardinality(SyncedChunks \ ok) ]_vars

\* An approved folder of two chunks was synced and the upload of its first
\* chunk failed.
C35_FirstChunkFailed ==
    /\ response.ep = "sync_all_approved"
    /\ \E f \in DOMAIN apprChunks : Cardinality(DOMAIN apprChunks[f]) >= 2
    /\ \E k \in 1..Len(response.handed) :
         response.handed[k].item.kind = "chunked" /\ ~response.handed[k].ok
====
